---------------------------- MODULE Spec2Model ----------------------------
(***************************************************************************)
(* A model of the streaming XML core of xmpp-rs/minidom:                   *)
(*   - Token::parse and the nom streaming combinators it is built from     *)
(*     (minidom/src/token.rs),                                             *)
(*   - the Tokenizer's push/pull buffer (minidom/src/tokenizer.rs),        *)
(*   - the TreeBuilder stack machine (minidom/src/tree_builder.rs).        *)
(*                                                                         *)
(* Bytes and characters are integers (ASCII codes / Unicode code points);  *)
(* strings are sequences of them.  Option<T> is a sequence of length 0     *)
(* (None) or 1 (Some).                                                     *)
(***************************************************************************)
EXTENDS Integers, Sequences, FiniteSets, TLC

VARIABLES
    \* ---- Tokenizer (tokenizer.rs) and its driver
    doc,        \* the byte sequence the driver feeds, chunk by chunk
    pos,        \* number of bytes of doc pushed so far
    buffer,     \* Tokenizer::buffer
    tokens,     \* tokens returned by pull so far, in order
    last,       \* outcome of the last call: new, push, some, none, err, panic
    drained,    \* every push so far happened right after a pull returned Ok(None)
    consumed,   \* total number of bytes the parser reported as consumed
    \* ---- TreeBuilder (tree_builder.rs)
    stack,           \* TreeBuilder::stack
    prefixes_stack,  \* TreeBuilder::prefixes_stack
    root,            \* TreeBuilder::root
    ret,             \* result of the last process_token call
    steps,           \* number of builder calls made so far
    plain,           \* the builder the same tokens leave without unshift_child
    plain_ret,       \* result of its last process_token call
    \* ---- NamespaceSet (namespace_set.rs, namespaces.rs)
    sets,            \* the NamespaceSets made so far; a set is named by its index
    built,           \* the bindings each set was constructed with
    ns_ret,          \* the last NamespaceSet call and what it returned
    \* ---- Iq (iq.rs)
    iq_root,         \* the element given to Iq::try_from
    iq_res,          \* what Iq::try_from returned
    \* ---- ClientBind (client/bind.rs)
    cb_state,        \* the variant of the ClientBind future
    cb_stream,       \* the XMPPStream the future holds, as Option
    cb_wire,         \* the connection under the stream
    cb_ret           \* what the last poll returned

tokVars == <<doc, pos, buffer, tokens, last, drained, consumed>>
tbVars == <<stack, prefixes_stack, root, ret, steps, plain, plain_ret>>
nsVars == <<sets, built, ns_ret>>
iqVars == <<iq_root, iq_res>>
cbVars == <<cb_state, cb_stream, cb_wire, cb_ret>>
vars == <<doc, pos, buffer, tokens, last, drained, consumed,
          stack, prefixes_stack, root, ret, steps, plain, plain_ret,
          sets, built, ns_ret,
          iq_root, iq_res, cb_state, cb_stream, cb_wire, cb_ret>>

----------------------------------------------------------------------------
(* Bytes *)

Ord ==
    [c \in {"\t", " ", "!", "\"", "#", "&", "'", "/", "0", "1", "2", "3", "4",
            "5", "6", "7", "8", "9", ":", ";", "<", "=", ">", "A", "B", "C",
            "D", "E", "F", "T", "[", "]", "a", "b", "c", "d", "e", "f", "g",
            "l", "m", "n", "o", "p", "q", "r", "s", "t", "u", "v", "x", "z",
            "xFF"} |->
       CASE c = "\t" -> 9   [] c = " " -> 32  [] c = "!" -> 33  [] c = "\"" -> 34
         [] c = "#" -> 35   [] c = "&" -> 38  [] c = "'" -> 39  [] c = "/" -> 47
         [] c = "0" -> 48   [] c = "1" -> 49  [] c = "2" -> 50  [] c = "3" -> 51
         [] c = "4" -> 52   [] c = "5" -> 53  [] c = "6" -> 54  [] c = "7" -> 55
         [] c = "8" -> 56   [] c = "9" -> 57  [] c = ":" -> 58  [] c = ";" -> 59
         [] c = "<" -> 60   [] c = "=" -> 61  [] c = ">" -> 62  [] c = "A" -> 65
         [] c = "B" -> 66   [] c = "C" -> 67  [] c = "D" -> 68  [] c = "E" -> 69
         [] c = "F" -> 70   [] c = "T" -> 84  [] c = "[" -> 91  [] c = "]" -> 93
         [] c = "a" -> 97   [] c = "b" -> 98  [] c = "c" -> 99  [] c = "d" -> 100
         [] c = "e" -> 101  [] c = "f" -> 102 [] c = "g" -> 103 [] c = "l" -> 108
         [] c = "m" -> 109  [] c = "n" -> 110 [] c = "o" -> 111 [] c = "p" -> 112
         [] c = "q" -> 113  [] c = "r" -> 114 [] c = "s" -> 115 [] c = "t" -> 116
         [] c = "u" -> 117  [] c = "v" -> 118 [] c = "x" -> 120 [] c = "z" -> 122
         [] c = "xFF" -> 255]

\* The byte string written as a tuple of one-character strings.
B(t) == [i \in 1..Len(t) |-> Ord[t[i]]]

Drop(s, n) == SubSeq(s, n + 1, Len(s))
Take(s, n) == SubSeq(s, 1, n)

\* Index of the first element of s satisfying P, 0 when there is none
\* (Iterator::position).
Position(P(_), s) ==
    IF \E i \in 1..Len(s) : P(s[i])
    THEN CHOOSE i \in 1..Len(s) : P(s[i]) /\ \A j \in 1..(i - 1) : ~P(s[j])
    ELSE 0

----------------------------------------------------------------------------
(* nom's IResult and the streaming combinators token.rs uses *)

Ok(rest, val) == [k |-> "ok", rest |-> rest, val |-> val]
Incomplete == [k |-> "incomplete", rest |-> <<>>, val |-> <<>>]
Error == [k |-> "error", rest |-> <<>>, val |-> <<>>]
Failure == [k |-> "failure", rest |-> <<>>, val |-> <<>>]
\* Not a nom result: the parser panicked (the thread unwinds).
Panic == [k |-> "panic", rest |-> <<>>, val |-> <<>>]

\* F applied to the value of e, e being evaluated once.
Let(e, F(_)) == CHOOSE x \in {F(v) : v \in {e}} : TRUE

\* The `?` operator: continue with F on Ok, return the result e otherwise.
Then(e, F(_)) ==
    CHOOSE x \in {IF r.k = "ok" THEN F(r) ELSE r : r \in {e}} : TRUE

\* nom::branch::alt, two parsers: the second is tried when the first returns
\* Err::Error; Ok, Incomplete and Failure of the first are returned as they
\* are.
alt(e, f) ==
    CHOOSE x \in {IF r.k # "error" THEN r ELSE f : r \in {e}} : TRUE

\* nom::bytes::streaming::tag
tag(t, s) ==
    LET n == IF Len(s) < Len(t) THEN Len(s) ELSE Len(t)
    IN  IF \E i \in 1..n : s[i] # t[i] THEN Error
        ELSE IF Len(s) >= Len(t) THEN Ok(Drop(s, Len(t)), t)
        ELSE Incomplete

\* nom::character::is_space
is_space(b) == b = 32 \/ b = 9

\* InputTakeAtPosition::split_at_position (streaming): the longest prefix of
\* elements satisfying P; Incomplete when s ends before an element fails P.
split_at_position(P(_), s) ==
    LET NotP(b) == ~P(b)
    IN  Let(Position(NotP, s), LAMBDA i :
            IF i = 0 THEN Incomplete ELSE Ok(Drop(s, i - 1), Take(s, i - 1)))

\* InputTakeAtPosition::split_at_position1 (streaming): as above, and an
\* Error when the prefix is empty.
split_at_position1(P(_), s) ==
    LET NotP(b) == ~P(b)
    IN  Let(Position(NotP, s), LAMBDA i :
            IF i = 0 THEN Incomplete
            ELSE IF i = 1 THEN Error
            ELSE Ok(Drop(s, i - 1), Take(s, i - 1)))

\* nom::character::streaming::space0
space0(s) == split_at_position(is_space, s)

\* nom::bytes::streaming::take_while1
take_while1(P(_), s) == split_at_position1(P, s)

\* nom::character::streaming::char
char(c, s) ==
    IF s = <<>> THEN Incomplete
    ELSE IF s[1] = c THEN Ok(Tail(s), c)
    ELSE Error

\* nom::character::streaming::one_of
one_of(list, s) ==
    IF s = <<>> THEN Incomplete
    ELSE IF s[1] \in list THEN Ok(Tail(s), s[1])
    ELSE Error

is_dec_digit(b) == b >= 48 /\ b <= 57

\* nom::character::streaming::digit1
digit1(s) == split_at_position1(is_dec_digit, s)

is_hex_digit(b) ==
    \/ b >= 48 /\ b <= 57
    \/ b >= 97 /\ b <= 102
    \/ b >= 65 /\ b <= 70

\* char::to_digit(16)
to_digit16(b) ==
    IF b <= 57 THEN b - 48 ELSE IF b >= 97 THEN b - 87 ELSE b - 55

\* The digits of ds without their leading zeros.
StripZeros(ds) ==
    LET NonZero(b) == b # 48
    IN  Let(Position(NonZero, ds), LAMBDA i :
            IF i = 0 THEN <<>> ELSE Drop(ds, i - 1))

RECURSIVE ValueOf(_, _)
\* The number written by the digits ds in the given base (ds short enough
\* for the value to be below 2^31).
ValueOf(ds, base) ==
    IF ds = <<>> THEN 0
    ELSE ValueOf(Take(ds, Len(ds) - 1), base) * base + to_digit16(ds[Len(ds)])

\* A number in the range of u32, kept exactly when it can be a char:
\* [big |-> TRUE] stands for every u32 above 0x10FFFF.
Num(n) == [big |-> FALSE, n |-> n]
BigNum == [big |-> TRUE, n |-> 0]

\* std::char::from_u32: None for surrogates and values above 0x10FFFF.
from_u32(num) ==
    IF num.big \/ num.n > 1114111 \/ (num.n >= 55296 /\ num.n <= 57343)
    THEN <<>>
    ELSE <<num.n>>

\* nom::number::streaming::hex_u32: at most the first 8 hex digits.
hex_u32(s) ==
    Then(split_at_position1(is_hex_digit, s), LAMBDA r :
        LET o == r.val
            parsed == IF Len(o) <= 8 THEN o ELSE Take(s, 8)
            remaining == IF Len(o) <= 8 THEN r.rest ELSE Drop(s, 8)
        IN  Let(StripZeros(parsed), LAMBDA sig :
                Ok(remaining,
                   IF Len(sig) > 6 THEN BigNum ELSE Num(ValueOf(sig, 16)))))

\* str::parse::<u32> on a non-empty string of decimal digits: <<>> on
\* overflow (the digits exceed 4294967295), <<num>> otherwise.
U32Max == B(<<"4", "2", "9", "4", "9", "6", "7", "2", "9", "5">>)

parse_u32(ds) ==
    Let(StripZeros(ds), LAMBDA sig :
        LET Above == \E i \in 1..10 :
                        /\ sig[i] > U32Max[i]
                        /\ \A j \in 1..(i - 1) : sig[j] = U32Max[j]
        IN  IF Len(sig) > 10 \/ (Len(sig) = 10 /\ Above) THEN <<>>
            ELSE IF Len(sig) > 7 THEN <<BigNum>>
            ELSE <<Num(ValueOf(sig, 10))>>)

\* std::str::from_utf8 on the inputs of this model, which hold ASCII bytes
\* and the byte 0xFF: a slice is valid UTF-8 exactly when it is all ASCII.
utf8_ok(s) == \A i \in 1..Len(s) : s[i] < 128

\* Token::str_from_utf8
str_from_utf8(s) == IF utf8_ok(s) THEN Ok(<<>>, s) ELSE Failure

----------------------------------------------------------------------------
(* token.rs *)

None == <<>>
Some(x) == <<x>>

\* The conversion splitting at the last colon.
LocalName_last_colon(s) ==
    LET I == {i \in 1..Len(s) : s[i] = 58}
    IN  IF I = {} THEN [prefix |-> None, name |-> s]
        ELSE LET i == CHOOSE x \in I : \A y \in I : y <= x
             IN  [prefix |-> Some(Take(s, i - 1)), name |-> Drop(s, i)]

\* impl From<&str> for LocalName: str::split_once(':')
LocalName(s) ==
    LET IsColon(b) == b = 58
    IN  Let(Position(IsColon, s), LAMBDA i :
            IF i = 0 THEN [prefix |-> None, name |-> s]
            ELSE [prefix |-> Some(Take(s, i - 1)), name |-> Drop(s, i)])

\* parse_text, first alternative: &#N;
text_decimal(s) ==
    Then(tag(B(<<"&", "#">>), s), LAMBDA r1 :
    Then(digit1(r1.rest), LAMBDA r2 :
    Then(char(59, r2.rest), LAMBDA r3 :
        Let(parse_u32(r2.val), LAMBDA num :
            IF num = <<>> THEN Failure
            ELSE Ok(r3.rest, from_u32(num[1]))))))

\* parse_text, second alternative: &#xH;
text_hex(s) ==
    Then(tag(B(<<"&", "#", "x">>), s), LAMBDA r1 :
    Then(hex_u32(r1.rest), LAMBDA r2 :
    Then(char(59, r2.rest), LAMBDA r3 :
        Ok(r3.rest, from_u32(r2.val)))))

\* parse_text, third alternative: the five named entities
text_named(s) ==
    LET value(c, e) == Then(e, LAMBDA r : Ok(r.rest, c))
    IN  Then(char(38, s), LAMBDA r1 :
        Then(alt(value(38, tag(B(<<"a", "m", "p">>), r1.rest)),
             alt(value(60, tag(B(<<"l", "t">>), r1.rest)),
             alt(value(62, tag(B(<<"g", "t">>), r1.rest)),
             alt(value(34, tag(B(<<"q", "u", "o", "t">>), r1.rest)),
                 value(39, tag(B(<<"a", "p", "o", "s">>), r1.rest)))))),
             LAMBDA r2 :
        Then(char(59, r2.rest), LAMBDA r3 : Ok(r3.rest, <<r2.val>>))))

\* parse_text, fourth alternative: a run of plain bytes
text_plain(until, s) ==
    LET \* nom::combinator::not over peek
        not_peek(e) == Let(e, LAMBDA r :
                          IF r.k = "ok" THEN Error
                          ELSE IF r.k = "error" THEN Ok(s, <<>>)
                          ELSE r)
        Plain(b) == b # until /\ b # 38
    IN  Then(not_peek(char(until, s)), LAMBDA r1 :
        Then(take_while1(Plain, r1.rest), LAMBDA r2 :
        Then(str_from_utf8(r2.val), LAMBDA r3 : Ok(r2.rest, r3.val))))

\* The alt of parse_text's four alternatives.
text_piece(until, s) ==
    alt(text_decimal(s),
    alt(text_hex(s),
    alt(text_named(s),
        text_plain(until, s))))

RECURSIVE many0_text(_, _, _)
\* nom::multi::many0 over text_piece, the results joined.
many0_text(until, s, acc) ==
    Let(text_piece(until, s), LAMBDA r :
        IF r.k = "error" THEN Ok(s, acc)
        ELSE IF r.k # "ok" THEN r
        ELSE IF Len(r.rest) = Len(s) THEN Error
        ELSE many0_text(until, r.rest, acc \o r.val))

\* Token::parse_text
parse_text(until, s) == many0_text(until, s, <<>>)

\* Token::parse_attr
parse_attr(s) ==
    LET NameByte(b) == ~(is_space(b) \/ b = 61 \/ b = 47 \/ b = 62)
    IN  Then(take_while1(NameByte, s), LAMBDA r1 :
        Then(str_from_utf8(r1.val), LAMBDA name :
        Then(space0(r1.rest), LAMBDA r2 :
        Then(tag(<<61>>, r2.rest), LAMBDA r3 :
        Then(space0(r3.rest), LAMBDA r4 :
        Then(one_of({39, 34}, r4.rest), LAMBDA r5 :
        Then(parse_text(r5.val, r5.rest), LAMBDA r6 :
        Then(char(r5.val, r6.rest), LAMBDA r7 :
            Ok(r7.rest, [name |-> name.val, value |-> r6.val])))))))))

RECURSIVE many0_attrs(_, _)
\* The many0 of parse_tag's StartTag branch: attributes, each followed by
\* space0.
many0_attrs(s, acc) ==
    Let(Then(parse_attr(s), LAMBDA r1 :
        Then(space0(r1.rest), LAMBDA r2 : Ok(r2.rest, r1.val))), LAMBDA r :
        IF r.k = "error" THEN Ok(s, acc)
        ELSE IF r.k # "ok" THEN r
        ELSE IF Len(r.rest) = Len(s) THEN Error
        ELSE many0_attrs(r.rest, Append(acc, r.val)))

Text(text) == [type |-> "Text", text |-> text]
EndTag(name) == [type |-> "EndTag", name |-> name]
StartTag(name, attrs, self_closing) ==
    [type |-> "StartTag", name |-> name, attrs |-> attrs,
     self_closing |-> self_closing]

\* The CDATA branch ending the section at the last ]]> of the buffer.
tag_cdata_last(s) ==
    Then(tag(B(<<"!", "[", "C", "D", "A", "T", "A", "[">>), s), LAMBDA r :
        LET t == r.rest
            IsEnd(i) == SubSeq(t, i + 1, i + 3) = B(<<"]", "]", ">">>)
            end == IF \E i \in 0..(Len(t) - 3) : IsEnd(i)
                   THEN Some(CHOOSE i \in 0..(Len(t) - 3) :
                                IsEnd(i) /\ \A j \in (i + 1)..(Len(t) - 3) :
                                                ~IsEnd(j))
                   ELSE None
        IN  IF Len(t) < 2 THEN Panic
            ELSE Let(end, LAMBDA e :
                    IF e = None THEN Incomplete
                    ELSE Then(str_from_utf8(Take(t, e[1])), LAMBDA text :
                            Ok(Drop(t, e[1] + 3), Text(text.val)))))

\* parse_tag, CDATA branch.  `0..s.len() - 2` underflows when fewer than two
\* bytes follow the opener: the subtraction panics in a debug build, and in
\* a release build it wraps and the first slice s[0..3] is out of bounds,
\* which panics too.
tag_cdata(s) ==
    Then(tag(B(<<"!", "[", "C", "D", "A", "T", "A", "[">>), s), LAMBDA r :
        LET t == r.rest
            IsEnd(i) == SubSeq(t, i + 1, i + 3) = B(<<"]", "]", ">">>)
            \* the first i of 0..s.len() - 2 with s[i..i + 3] == "]]>", as
            \* Option
            end == IF \E i \in 0..(Len(t) - 3) : IsEnd(i)
                   THEN Some(CHOOSE i \in 0..(Len(t) - 3) :
                                IsEnd(i) /\ \A j \in 0..(i - 1) : ~IsEnd(j))
                   ELSE None
        IN  IF Len(t) < 2 THEN Panic
            ELSE Let(end, LAMBDA e :
                    IF e = None THEN Incomplete
                    ELSE Then(str_from_utf8(Take(t, e[1])), LAMBDA text :
                            Ok(Drop(t, e[1] + 3), Text(text.val)))))

\* parse_tag, EndTag branch.
tag_end(s) ==
    LET NameByte(b) == ~(is_space(b) \/ b = 62)
    IN  Then(tag(<<47>>, s), LAMBDA r1 :
        Then(space0(r1.rest), LAMBDA r2 :
        Then(take_while1(NameByte, r2.rest), LAMBDA r3 :
        Then(space0(r3.rest), LAMBDA r4 :
        Then(tag(<<62>>, r4.rest), LAMBDA r5 :
        Then(str_from_utf8(r3.val), LAMBDA name :
            Ok(r5.rest, EndTag(LocalName(name.val)))))))))

\* parse_tag, StartTag branch.
tag_start(s) ==
    LET NameByte(b) == ~(is_space(b) \/ b = 62 \/ b = 47)
        Closing(t) ==
            alt(Then(tag(<<47>>, t), LAMBDA c1 :
                Then(space0(c1.rest), LAMBDA c2 :
                Then(tag(<<62>>, c2.rest), LAMBDA c3 : Ok(c3.rest, TRUE)))),
                Then(tag(<<62>>, t), LAMBDA c1 : Ok(c1.rest, FALSE)))
    IN  Then(space0(s), LAMBDA r1 :
        Then(take_while1(NameByte, r1.rest), LAMBDA r2 :
        Then(space0(r2.rest), LAMBDA r3 :
        Then(many0_attrs(r3.rest, <<>>), LAMBDA r4 :
        Then(Closing(r4.rest), LAMBDA r5 :
        Then(str_from_utf8(r2.val), LAMBDA name :
            Ok(r5.rest,
               StartTag(LocalName(name.val),
                        [i \in 1..Len(r4.val) |->
                            [name |-> LocalName(r4.val[i].name),
                             value |-> r4.val[i].value]],
                        r5.val))))))))

\* Token::parse_tag
parse_tag(s) ==
    Then(tag(<<60>>, s), LAMBDA r :
        alt(tag_cdata(r.rest),
        alt(tag_end(r.rest),
            tag_start(r.rest))))

\* Token::parse
parse(s) ==
    alt(parse_tag(s),
        Then(parse_text(60, s), LAMBDA r : Ok(r.rest, Text(r.val))))

----------------------------------------------------------------------------
(* tokenizer.rs *)

\* BytesMut::extend_from_slice
extend_from_slice(buf, bytes) == buf \o bytes

\* split_to taken for split_off: the buffer keeps the bytes before index
\* `at`.
split_to_keeps_front(buf, at) == Take(buf, at)

\* BytesMut::split_to(at): the buffer keeps the bytes from index `at` on.
split_to(buf, at) == Drop(buf, at)

\* What pull does with the result of Token::parse(&self.buffer): the new
\* buffer, the token if any, and the kind of return.
pull(buf) ==
    Let(parse(buf), LAMBDA r :
        IF r.k = "ok"
        THEN [buffer |-> split_to(buf, Len(buf) - Len(r.rest)),
              token |-> Some(r.val), res |-> "some", s_len |-> Len(r.rest)]
        ELSE IF r.k = "incomplete"
        THEN [buffer |-> buf, token |-> None, res |-> "none", s_len |-> 0]
        ELSE IF r.k = "panic"
        THEN [buffer |-> buf, token |-> None, res |-> "panic", s_len |-> 0]
        ELSE [buffer |-> buf, token |-> None, res |-> "err", s_len |-> 0])

\* Longest input of the exhaustive part of the inputs.
MaxLen == 3
\* Number of tokens after which the driver stops pulling.
MaxTokens == 4

ShortAlphabet == B(<<"<", ">", "/", "a", "&", ";", "'", "=">>)

ShortInputs ==
    UNION {[1..n -> {ShortAlphabet[i] : i \in 1..Len(ShortAlphabet)}] :
              n \in 0..MaxLen}

\* Documents: the inputs of the tests of tokenizer.rs and token.rs, and
\* inputs that exercise each production and each way it can be cut or broken.
Docs ==
    { B(<<"<", "f", "o", "o", " ", "b", "a", "r", "=", "'", "b", "a", "z", "'",
          ">", "q", "u", "u", "x", "<", "/", "f", "o", "o", ">">>),
      B(<<"f", "o", "o", "b", "a", "r", "<", "/", "x">>),
      B(<<"&", "q", "u", "o", "t", ";", "&", "l", "t", ";", "f", "&", "a", "m",
          "p", ";", "&", "g", "t", ";", "&", "a", "p", "o", "s", ";", "<">>),
      B(<<"f", "&", "#", "1", "3", ";", "&", "#", "1", "0", ";", "<", "/", "x">>),
      B(<<"f", "&", "#", "x", "D", ";", "&", "#", "x", "0", "A", ";", "<">>),
      B(<<"<", "!", "[", "C", "D", "A", "T", "A", "[", "<", "a", " ", "'", ">",
          "]", "]", ">">>),
      B(<<"<", "!", "[", "C", "D", "A", "T", "A", "[", "]", "]", ">", "<", "a",
          ">">>),
      B(<<"<", "a", " ", "a", "=", "\"", "2", "'", "3", "\"", " ", "b", " ", "=",
          " ", "'", "4", "\"", "2", "'", " ", "c", "=", "'", "'", ">">>),
      B(<<"<", "a", " ", "a", "=", "'", "&", "l", "t", ";", "&", "#", "5", "1",
          ";", "'", ">">>),
      B(<<"<", "f", "o", "o", "/", ">", "<", "/", " ", "f", "o", "o", " ", ">">>),
      B(<<"<", "x", ":", "z", " ", "x", "m", "l", "n", "s", ":", "x", "=", "'",
          "u", "'", "/", " ", ">">>),
      B(<<"<", "a", " ", "x", ":", "b", "=", "'", "'", ">", "t", "<", "/", "a",
          ">">>),
      B(<<"<", ">", "a", "<">>),
      B(<<"<", "a", " ", "b", ">", "<">>),
      B(<<"a", "&", "f", "o", "o", ";", "b", "<">>),
      B(<<"<", "a", " ", "b", "=", "'", "&", "f", "o", "o", ";", "'", ">">>),
      B(<<"<", "a", ">", "xFF", "<", "/", "a", ">">>),
      B(<<"<", "xFF", ">">>),
      B(<<"&", "#", "4", "2", "9", "4", "9", "6", "7", "2", "9", "6", ";", "<">>),
      B(<<"&", "#", "4", "2", "9", "4", "9", "6", "7", "2", "9", "5", ";", "&",
          "#", "x", "D", "8", "0", "0", ";", "a", "<">>),
      B(<<"&", "#", "x", "1", "1", "0", "0", "0", "0", ";", "&", "#", "x", "1",
          "2", "3", "4", "5", "6", "7", "8", "9", ";", "<">>),
      B(<<"&", "#", "x", "0", "0", "0", "0", "0", "0", "0", "4", "1", ";", "<">>),
      B(<<"&", "#", "0", "0", "0", "0", "0", "0", "0", "0", "6", "5", ";", "<">>),
      B(<<"<", "!", "[", "C", "D", "A", "T", "A", "[", "&", "l", "t", ";", "]",
          "]", "]", ">", "x", "<">>),
      B(<<"<", "!", "[", "C", "D", "A", "T", "A", "[", "a", "]", "]", ">", "b",
          "]", "]", ">">>),
      B(<<"<", "a", ":", "b", ":", "c", ">">>),
      B(<<"<", ":", "a", ">">>),
      B(<<"<", "a", ":", ">">>) }

Inputs == Docs \cup ShortInputs

Pushed == Take(doc, pos)

\* The fields of the TreeBuilder before any call.
tbNew ==
    /\ stack = <<>>
    /\ prefixes_stack = <<>>
    /\ root = None
    /\ ret = "new"
    /\ steps = 0
    /\ plain = [stack |-> <<>>, prefixes_stack |-> <<>>, root |-> None]
    /\ plain_ret = "new"

\* No NamespaceSet has been made.
nsNew ==
    /\ sets = <<>>
    /\ built = <<>>
    /\ ns_ret = [op |-> "new"]

\* No element has been given to Iq::try_from.
iqNew ==
    /\ iq_root = [type |-> None, children |-> <<>>]
    /\ iq_res = [k |-> "none"]

\* No ClientBind has been made.
cbNew ==
    /\ cb_state = "none"
    /\ cb_stream = None
    /\ cb_wire = [out |-> "idle", inbox |-> <<>>, read |-> <<>>,
                  eof |-> FALSE, ended |-> FALSE, broken |-> FALSE]
    /\ cb_ret = [k |-> "new"]

\* Tokenizer::new, and the driver's choice of what it will feed.
InitTok ==
    /\ doc \in Inputs
    /\ pos = 0
    /\ buffer = <<>>
    /\ tokens = <<>>
    /\ last = "new"
    /\ drained = TRUE
    /\ consumed = 0
    /\ tbNew
    /\ nsNew
    /\ iqNew
    /\ cbNew

\* Tokenizer::push of the next n bytes of the document.
Push(n) ==
    /\ last # "panic"
    /\ pos + n <= Len(doc)
    /\ buffer' = extend_from_slice(buffer, SubSeq(doc, pos + 1, pos + n))
    /\ pos' = pos + n
    /\ last' = "push"
    /\ drained' = (drained /\ last \in {"new", "none"})
    /\ UNCHANGED <<doc, tokens, consumed>>
    /\ UNCHANGED <<tbVars, nsVars, iqVars, cbVars>>

\* Tokenizer::pull
Pull ==
    /\ last # "panic"
    /\ Len(tokens) < MaxTokens
    /\ \E p \in {pull(buffer)} :
           /\ buffer' = p.buffer
           /\ tokens' = tokens \o p.token
           /\ last' = p.res
           /\ consumed' = consumed +
                (IF p.res = "some" THEN Len(buffer) - p.s_len ELSE 0)
    /\ UNCHANGED <<doc, pos, drained>>
    /\ UNCHANGED <<tbVars, nsVars, iqVars, cbVars>>

NextTok ==
    \/ \E n \in 1..(Len(doc) - pos) : Push(n)
    \/ Pull

SpecTok == InitTok /\ [][NextTok]_vars

----------------------------------------------------------------------------
(* Properties of the Tokenizer *)

RECURSIVE run(_, _)
\* The loop of tests::test::run for one chunk: pull until it stops
\* returning a token.  end is how the last pull ended; "more" when the
\* tokenizer still returned tokens after MaxTokens of them.
run(buf, toks) ==
    Let(pull(buf), LAMBDA p :
        IF p.res # "some" THEN [tokens |-> toks, buffer |-> buf, end |-> p.res]
        ELSE IF Len(toks) = MaxTokens
        THEN [tokens |-> toks, buffer |-> buf, end |-> "more"]
        ELSE run(p.buffer, toks \o p.token))

\* The whole document pushed as one chunk into a fresh Tokenizer.
SinglePush == run(extend_from_slice(<<>>, doc), <<>>)

\* A step of pull: push is the only other call, and it moves pos.
PullStep == pos' = pos /\ last' \in {"some", "none", "err", "panic"}

HasPrefix(s, t) == Len(s) >= Len(t) /\ Take(s, Len(t)) = t

\* C1 (chunk invariance): a run that pushes the document in chunks and pulls
\* until Ok(None) after each push never fails or crashes when the single
\* push of the document succeeds, and once the whole document is pushed and
\* drained it has the tokens and the buffer of the single push.
C1_ChunkInvariance ==
    drained =>
        /\ (SinglePush.end = "none" => last \notin {"err", "panic"})
        /\ (pos = Len(doc) /\ last = "none" /\ SinglePush.end = "none" =>
                tokens = SinglePush.tokens /\ buffer = SinglePush.buffer)

\* C2 (buffer conservation): the buffer is always the pushed bytes without
\* the bytes of the tokens returned so far, in order: push appends at the
\* end, a pull that returns a token removes that token's bytes from the
\* front, and every other pull leaves the buffer as it is.
C2_BufferConservation ==
    /\ consumed <= pos
    /\ buffer = Drop(Pushed, consumed)

\* C2's case: a pull has returned a token, removing its bytes from the
\* front of a buffer that holds more.
C2_Witness ==
    /\ last = "some"
    /\ consumed > 0
    /\ buffer # <<>>
    /\ Len(tokens) >= 2

\* t is the bytes of one complete token: followed by the `<` of a next tag,
\* it parses to a token that consumes exactly t.
IsToken(t) ==
    /\ t # <<>>
    /\ Let(parse(t \o <<60>>), LAMBDA r : r.k = "ok" /\ r.rest = <<60>>)

\* The buffer holds a proper prefix of a token of the document.
PrefixOfToken ==
    \E n \in (Len(buffer) + 1)..(Len(doc) - consumed) :
        IsToken(SubSeq(doc, consumed + 1, consumed + n))

\* C3 (incompleteness): a pull on a buffer that holds a proper prefix of a
\* valid token returns Ok(None) and leaves the buffer untouched.
C3_Incomplete ==
    [][PullStep /\ buffer = Drop(Pushed, consumed) /\ PrefixOfToken =>
           last' = "none" /\ buffer' = buffer]_vars

\* The malformed inputs of C4: `<>` and `<a b>`.
Malformed(s) ==
    \/ HasPrefix(s, B(<<"<", ">">>))
    \/ HasPrefix(s, B(<<"<", "a", " ", "b", ">">>))

\* C4 (malformed input): a pull on a buffer that starts with bytes that
\* cannot form a token under any continuation returns Err.
C4_MalformedIsError ==
    [][PullStep /\ Malformed(buffer) => last' = "err"]_vars

\* s[i..j] is an entity reference &name; whose name is a non-empty string of
\* lower-case letters and is none of amp, lt, gt, quot, apos.
UnknownEntity(s, i, j) ==
    /\ i < j - 1
    /\ s[i] = 38
    /\ s[j] = 59
    /\ \A n \in (i + 1)..(j - 1) : s[n] >= 97 /\ s[n] <= 122
    /\ SubSeq(s, i + 1, j - 1) \notin
          { B(<<"a", "m", "p">>), B(<<"l", "t">>), B(<<"g", "t">>),
            B(<<"q", "u", "o", "t">>), B(<<"a", "p", "o", "s">>) }

\* The first token of s is a text run, or a start tag with one attribute,
\* that holds an unknown entity reference.
HasUnknownEntity(s) ==
    \E i, j \in 1..Len(s) :
        /\ UnknownEntity(s, i, j)
        /\ \/ \A n \in 1..(i - 1) : s[n] \notin {60, 38}
           \/ /\ i > 3
              /\ s[1] = 60
              /\ s[i - 1] \in {39, 34}
              /\ s[i - 2] = 61
              /\ \A n \in 2..(i - 3) : s[n] \notin {60, 62, 61, 39, 34, 38}

\* C5 (unknown entities): a pull on a buffer whose first token holds an
\* entity reference that is none of the five predefined ones returns Err.
C5_UnknownEntityIsError ==
    [][PullStep /\ HasUnknownEntity(buffer) => last' = "err"]_vars

----------------------------------------------------------------------------
(* The collaborators of tree_builder.rs: Prefixes and Element *)

\* BTreeMap::insert
Insert(m, key, v) == [x \in DOMAIN m \cup {key} |-> IF x = key THEN v ELSE m[x]]

\* BTreeMap::new / Prefixes::default
EmptyMap == <<>>

\* Prefixes::get
Prefixes_get(nss, prefix) ==
    IF prefix \in DOMAIN nss THEN Some(nss[prefix]) ELSE None

\* Element::new
Element_new(name, namespace, prefix, prefixes, attributes, children) ==
    [node |-> "Element", name |-> name, namespace |-> namespace,
     prefix |-> prefix, prefixes |-> prefixes, attributes |-> attributes,
     children |-> children]

\* Element::append_child
append_child(el, child) == [el EXCEPT !.children = Append(@, child)]

\* Element::append_text_node
append_text_node(el, text) ==
    [el EXCEPT !.children = Append(@, [node |-> "Text", text |-> text])]

\* Element::unshift_child: the element without its first child, and that
\* child as Option.
Element_unshift_child(el) ==
    IF el.children = <<>> THEN [el |-> el, child |-> None]
    ELSE [el |-> [el EXCEPT !.children = Tail(@)],
          child |-> Some(Head(el.children))]

----------------------------------------------------------------------------
(* tree_builder.rs.  A builder is [stack, prefixes_stack, root]; an         *)
(* operation returns the builder it leaves and its Result.                 *)

Builder(st, ps, rt) == [stack |-> st, prefixes_stack |-> ps, root |-> rt]
Returns(tb, res) == [tb |-> tb, res |-> res]

\* TreeBuilder::new
TreeBuilder_new == Builder(<<>>, <<>>, None)

\* TreeBuilder::depth
depth(tb) == Len(tb.stack)

\* Vec::pop on v: the vector left.
PopVec(v) == IF v = <<>> THEN v ELSE Take(v, Len(v) - 1)

\* TreeBuilder::pop: both stacks are popped, each if it is not empty; the
\* element popped off stack is returned as Option.
pop(tb) ==
    [tb |-> [tb EXCEPT !.prefixes_stack = PopVec(@), !.stack = PopVec(@)],
     el |-> IF tb.stack = <<>> THEN None ELSE Some(tb.stack[Len(tb.stack)])]

RECURSIVE lookup_from(_, _, _)
\* The loop of lookup_prefix over prefixes_stack[1..i], innermost first.
lookup_from(ps, i, prefix) ==
    IF i = 0 THEN None
    ELSE IF Prefixes_get(ps[i], prefix) # None THEN Prefixes_get(ps[i], prefix)
    ELSE lookup_from(ps, i - 1, prefix)

\* TreeBuilder::lookup_prefix
lookup_prefix(tb, prefix) ==
    lookup_from(tb.prefixes_stack, Len(tb.prefixes_stack), prefix)

xmlns == B(<<"x", "m", "l", "n", "s">>)

RECURSIVE scan_attrs_keeps_xmlns(_, _, _, _)
\* The attribute loop storing the namespace declarations as attributes too.
scan_attrs_keeps_xmlns(attrs, i, prefixes, attributes) ==
    IF i > Len(attrs) THEN [prefixes |-> prefixes, attributes |-> attributes]
    ELSE LET attr == attrs[i]
         IN  IF attr.name.prefix = None /\ attr.name.name = xmlns
             THEN scan_attrs_keeps_xmlns(attrs, i + 1,
                             Insert(prefixes, None, attr.value),
                             Insert(attributes, attr.name.name, attr.value))
             ELSE IF attr.name.prefix = Some(xmlns)
             THEN scan_attrs_keeps_xmlns(attrs, i + 1,
                             Insert(prefixes, Some(attr.name.name), attr.value),
                             Insert(attributes,
                                    attr.name.prefix[1] \o <<58>> \o attr.name.name,
                                    attr.value))
             ELSE IF attr.name.prefix # None
             THEN scan_attrs_keeps_xmlns(attrs, i + 1, prefixes,
                             Insert(attributes,
                                    attr.name.prefix[1] \o <<58>> \o attr.name.name,
                                    attr.value))
             ELSE scan_attrs_keeps_xmlns(attrs, i + 1, prefixes,
                             Insert(attributes, attr.name.name, attr.value))

RECURSIVE scan_attrs(_, _, _, _)
\* The loop of process_start_tag over attrs[i..]: the namespace declarations
\* go to prefixes, the other attributes to attributes.
scan_attrs(attrs, i, prefixes, attributes) ==
    IF i > Len(attrs) THEN [prefixes |-> prefixes, attributes |-> attributes]
    ELSE LET attr == attrs[i]
         IN  IF attr.name.prefix = None /\ attr.name.name = xmlns
             THEN scan_attrs(attrs, i + 1,
                             Insert(prefixes, None, attr.value), attributes)
             ELSE IF attr.name.prefix = Some(xmlns)
             THEN scan_attrs(attrs, i + 1,
                             Insert(prefixes, Some(attr.name.name), attr.value),
                             attributes)
             ELSE IF attr.name.prefix # None
             THEN scan_attrs(attrs, i + 1, prefixes,
                             Insert(attributes,
                                    attr.name.prefix[1] \o <<58>> \o attr.name.name,
                                    attr.value))
             ELSE scan_attrs(attrs, i + 1, prefixes,
                             Insert(attributes, attr.name.name, attr.value))

\* TreeBuilder::process_start_tag
process_start_tag(tb, name, attrs) ==
    LET scanned == scan_attrs(attrs, 1, EmptyMap, EmptyMap)
        pushed == [tb EXCEPT !.prefixes_stack = Append(@, scanned.prefixes)]
        namespace == lookup_prefix(pushed, name.prefix)
    IN  IF namespace = None THEN Returns(pushed, "MissingNamespace")
        ELSE Returns([pushed EXCEPT !.stack =
                        Append(@, Element_new(name.name, namespace[1],
                                              Some(name.prefix),
                                              scanned.prefixes,
                                              scanned.attributes, <<>>))],
                     "Ok")

\* process_end_tag putting the closed element before its siblings.
process_end_tag_prepend(tb, name) ==
    LET popped == pop(tb)
        t == popped.tb
    IN  IF popped.el = None THEN Returns(t, "Ok")
        ELSE LET el == popped.el[1]
             IN  IF el.name # name.name \/ el.prefix # Some(name.prefix)
                 THEN Returns(t, "InvalidElementClosed")
                 ELSE IF depth(t) > 0
                 THEN Returns([t EXCEPT !.stack[Len(t.stack)].children =
                                            <<el>> \o @], "Ok")
                 ELSE Returns([t EXCEPT !.root = Some(el)], "Ok")

\* process_text adding the text node to the outermost open element.
process_text_outermost(tb, text) ==
    IF depth(tb) > 0
    THEN [tb EXCEPT !.stack[1] = append_text_node(@, text)]
    ELSE tb

\* process_end_tag comparing the localnames only.
process_end_tag_name_only(tb, name) ==
    LET popped == pop(tb)
        t == popped.tb
    IN  IF popped.el = None THEN Returns(t, "Ok")
        ELSE LET el == popped.el[1]
             IN  IF el.name # name.name
                 THEN Returns(t, "InvalidElementClosed")
                 ELSE IF depth(t) > 0
                 THEN Returns([t EXCEPT !.stack[Len(t.stack)] =
                                            append_child(@, el)], "Ok")
                 ELSE Returns([t EXCEPT !.root = Some(el)], "Ok")

\* TreeBuilder::process_end_tag
process_end_tag(tb, name) ==
    LET popped == pop(tb)
        t == popped.tb
    IN  IF popped.el = None THEN Returns(t, "Ok")
        ELSE LET el == popped.el[1]
             IN  IF el.name # name.name \/ el.prefix # Some(name.prefix)
                 THEN Returns(t, "InvalidElementClosed")
                 ELSE IF depth(t) > 0
                 THEN Returns([t EXCEPT !.stack[Len(t.stack)] =
                                            append_child(@, el)], "Ok")
                 ELSE Returns([t EXCEPT !.root = Some(el)], "Ok")

\* TreeBuilder::process_text
process_text(tb, text) ==
    IF depth(tb) > 0
    THEN [tb EXCEPT !.stack[Len(tb.stack)] = append_text_node(@, text)]
    ELSE tb

\* TreeBuilder::process_token
process_token(tb, token) ==
    IF token.type = "XmlDecl" THEN Returns(tb, "Ok")
    ELSE IF token.type = "StartTag" /\ ~token.self_closing
    THEN process_start_tag(tb, token.name, token.attrs)
    ELSE IF token.type = "StartTag"
    THEN LET started == process_start_tag(tb, token.name, token.attrs)
         IN  IF started.res # "Ok" THEN started
             ELSE process_end_tag(started.tb, token.name)
    ELSE IF token.type = "EndTag" THEN process_end_tag(tb, token.name)
    ELSE Returns(process_text(tb, token.text), "Ok")

\* unshift_child detaching the last child instead of the first.
unshift_child_last(tb) ==
    IF depth(tb) > 0
    THEN LET el == tb.stack[Len(tb.stack)]
         IN  IF el.children = <<>> THEN [tb |-> tb, child |-> None]
             ELSE [tb |-> [tb EXCEPT !.stack[Len(tb.stack)].children =
                                        Take(@, Len(@) - 1)],
                   child |-> Some(el.children[Len(el.children)])]
    ELSE [tb |-> tb, child |-> None]

\* TreeBuilder::unshift_child
unshift_child(tb) ==
    IF depth(tb) > 0
    THEN LET u == Element_unshift_child(tb.stack[Len(tb.stack)])
         IN  [tb |-> [tb EXCEPT !.stack[Len(tb.stack)] = u.el], child |-> u.child]
    ELSE [tb |-> tb, child |-> None]

----------------------------------------------------------------------------
(* The builder driven by tokens *)

\* Number of builder calls of a run.
MaxSteps == 4

XmlDecl == [type |-> "XmlDecl"]

QName(prefix, name) == [prefix |-> prefix, name |-> name]
Attr(prefix, name, value) == [name |-> QName(prefix, name), value |-> value]

\* Names of start tags, and of end tags: b closes no element.
TBNames == {QName(None, B(<<"a">>)), QName(Some(B(<<"p">>)), B(<<"a">>))}
TBEndNames == TBNames \cup {QName(None, B(<<"b">>))}

TBAttrs ==
    { <<>>,
      <<Attr(None, xmlns, B(<<"u">>))>>,
      <<Attr(None, xmlns, <<>>)>>,
      <<Attr(Some(xmlns), B(<<"p">>), B(<<"v">>))>>,
      <<Attr(Some(xmlns), B(<<"p">>), B(<<"u">>)),
        Attr(Some(B(<<"p">>)), B(<<"c">>), B(<<"1">>)),
        Attr(None, B(<<"c">>), B(<<"2">>))>> }

TBTokens ==
    {StartTag(n, a, sc) : n \in TBNames, a \in TBAttrs, sc \in BOOLEAN}
        \cup {EndTag(n) : n \in TBEndNames}
        \cup {Text(B(<<"t">>)), XmlDecl}

TB == Builder(stack, prefixes_stack, root)

\* The fields of the Tokenizer and its driver before any call.
tokNew ==
    /\ doc = <<>>
    /\ pos = 0
    /\ buffer = <<>>
    /\ tokens = <<>>
    /\ last = "new"
    /\ drained = TRUE
    /\ consumed = 0

InitTB == tbNew /\ tokNew /\ nsNew /\ iqNew /\ cbNew

\* A call of process_token.
ProcessToken(token) ==
    /\ steps < MaxSteps
    /\ \E r \in {process_token(TB, token)} :
           /\ stack' = r.tb.stack
           /\ prefixes_stack' = r.tb.prefixes_stack
           /\ root' = r.tb.root
           /\ ret' = r.res
    /\ \E q \in {process_token(plain, token)} :
           /\ plain' = q.tb
           /\ plain_ret' = q.res
    /\ steps' = steps + 1
    /\ UNCHANGED <<tokVars, nsVars, iqVars, cbVars>>

\* A call of unshift_child, between two calls of process_token.
UnshiftChild ==
    /\ steps < MaxSteps
    /\ \E r \in {unshift_child(TB)} :
           /\ stack' = r.tb.stack
           /\ prefixes_stack' = r.tb.prefixes_stack
           /\ root' = r.tb.root
           /\ ret' = IF r.child = None THEN "None" ELSE "Some"
    /\ steps' = steps + 1
    /\ UNCHANGED <<plain, plain_ret>>
    /\ UNCHANGED <<tokVars, nsVars, iqVars, cbVars>>

NextTB ==
    \/ \E token \in TBTokens : ProcessToken(token)
    \/ UnshiftChild

SpecTB == InitTB /\ [][NextTB]_vars

----------------------------------------------------------------------------
(* Properties of the TreeBuilder *)

StartTags == {t \in TBTokens : t.type = "StartTag"}

\* The namespace declarations of a start tag: xmlns binds None, xmlns:P
\* binds Some(P); of two declarations of one prefix the later one counts.
OwnDecls(attrs) ==
    LET IsDecl(i) ==
            \/ attrs[i].name.prefix = None /\ attrs[i].name.name = xmlns
            \/ attrs[i].name.prefix = Some(xmlns)
        KeyOf(i) == IF attrs[i].name.prefix = None THEN None
                    ELSE Some(attrs[i].name.name)
        D == {i \in 1..Len(attrs) : IsDecl(i)}
    IN  [key \in {KeyOf(i) : i \in D} |->
            attrs[CHOOSE i \in D :
                    /\ KeyOf(i) = key
                    /\ \A j \in D : KeyOf(j) = key => j <= i].value]

\* The declarations of the open elements, outermost first.
OpenDecls == [i \in 1..Len(stack) |-> stack[i].prefixes]

\* The URI of the nearest declaration of prefix in decls (outermost first),
\* as Option.
NearestDecl(decls, prefix) ==
    LET I == {i \in 1..Len(decls) : prefix \in DOMAIN decls[i]}
    IN  IF I = {} THEN None
        ELSE Some(decls[CHOOSE i \in I : \A j \in I : j <= i][prefix])

\* The declaration a start tag's own prefix resolves to, were the tag
\* processed now.
Resolution(token) ==
    NearestDecl(Append(OpenDecls, OwnDecls(token.attrs)), token.name.prefix)

\* The element a successful process_token(StartTag) has constructed, found
\* in the builder it leaves: the new top of the stack, or for a self-closing
\* tag the last child of the top or the root.
Constructed(token, tb) ==
    IF ~token.self_closing THEN tb.stack[Len(tb.stack)]
    ELSE IF depth(tb) > 0
    THEN LET top == tb.stack[Len(tb.stack)]
         IN  top.children[Len(top.children)]
    ELSE tb.root[1]

\* C6 (stack balance): after every process_token call, whatever it
\* returned, stack and prefixes_stack have the same length.
C6_StackBalance == Len(stack) = Len(prefixes_stack)

\* C7 (namespace resolution): whatever start tag is processed next, the
\* element constructed for it has the namespace of the nearest declaration
\* of its prefix, among the tag's own declarations and then those of the
\* open elements, innermost first.
C7_NamespaceResolution ==
    \A token \in StartTags :
        LET r == process_token(TB, token)
        IN  r.res = "Ok" =>
                /\ Resolution(token) # None
                /\ Constructed(token, r.tb).namespace = Resolution(token)[1]

\* C8 (no default namespace): a start tag without prefix, processed when
\* neither the tag nor an open element declares a default namespace,
\* succeeds and its element has the empty namespace.
C8_UnprefixedEmptyNamespace ==
    \A token \in StartTags :
        LET r == process_token(TB, token)
        IN  token.name.prefix = None /\ Resolution(token) = None =>
                /\ r.res = "Ok"
                /\ Constructed(token, r.tb).namespace = <<>>

\* C9 (undeclared prefix): a start tag whose prefix is declared neither on
\* the tag nor on an open element returns MissingNamespace, and no element
\* is pushed on the stack.
C9_UndeclaredPrefix ==
    \A token \in StartTags :
        LET r == process_token(TB, token)
        IN  token.name.prefix # None /\ Resolution(token) = None =>
                /\ r.res = "MissingNamespace"
                /\ r.tb.stack = stack

\* C10 (end tag match): at depth > 0, an end tag whose localname or prefix
\* differs from the innermost open element's returns InvalidElementClosed,
\* and an end tag with the same localname and prefix does not.
C10_EndTagMatch ==
    depth(TB) > 0 =>
        \A name \in TBEndNames :
            LET top == stack[Len(stack)]
                r == process_token(TB, EndTag(name))
                same == top.name = name.name /\ top.prefix = Some(name.prefix)
            IN  (r.res = "InvalidElementClosed") <=> ~same

\* C10's case: an end tag that does not match the open element has been
\* processed and rejected, a matching one has closed an element before.
C10_Witness == ret = "InvalidElementClosed" /\ root # None

\* An end tag of this name matches the innermost open element.
Matches(name) ==
    /\ stack # <<>>
    /\ stack[Len(stack)].name = name.name
    /\ stack[Len(stack)].prefix = Some(name.prefix)

\* What a matching end tag does, whatever matching end tag comes next: one
\* element leaves the stack and becomes the last child of the new top, the
\* other open elements and root staying as they are, or it becomes root when
\* no element is left open.
C11_Closing ==
    \A name \in TBEndNames :
        Matches(name) =>
            LET n == Len(stack)
                el == stack[n]
                r == process_token(TB, EndTag(name))
            IN  /\ r.res = "Ok"
                /\ Len(r.tb.stack) = n - 1
                /\ \A i \in 1..(n - 2) : r.tb.stack[i] = stack[i]
                /\ n > 1 =>
                     /\ r.tb.stack[n - 1].children =
                            stack[n - 1].children \o <<el>>
                     /\ [r.tb.stack[n - 1] EXCEPT !.children = <<>>] =
                            [stack[n - 1] EXCEPT !.children = <<>>]
                     /\ r.tb.root = root
                /\ n = 1 => r.tb.root = Some(el)

\* A step that changes root is a successful call that leaves no element
\* open: it closed the only open element, which is the new root, or
\* processed a self-closing tag at depth 0.
C11_RootAssigned ==
    root' # root =>
        /\ ret' = "Ok"
        /\ stack' = <<>>
        /\ \/ Len(stack) = 1 /\ root' = Some(stack[1])
           \/ stack = <<>> /\ root' # None /\ root'[1].children = <<>>

\* C11 (closing an element): a matching EndTag pops exactly one element,
\* which becomes the last child of the new top of the stack, or root when
\* the stack is then empty; root is assigned by no other step than one that
\* brings depth to 0.
C11_EndTagPops == []C11_Closing /\ [][C11_RootAssigned]_vars

\* C11's case: an element with a child element has been closed at depth 1
\* and is root.
C11_Witness ==
    /\ ret = "Ok"
    /\ stack = <<>>
    /\ root # None
    /\ \E i \in 1..Len(root[1].children) : root[1].children[i].node = "Element"

\* The self-closing start tags the specification accepts: those without
\* prefix, and those whose prefix is declared on the tag or an open element.
Accepted(token) ==
    token.self_closing /\ (token.name.prefix = None \/ Resolution(token) # None)

\* C12 (self-closing tags): a self-closing StartTag leaves the builder as
\* the same StartTag not self-closing followed by its EndTag does; for a tag
\* the specification accepts depth is unchanged and one childless element
\* is the new last child of the top, or root at depth 0; the EndTag never
\* returns InvalidElementClosed.
C12_SelfClosing ==
    \A token \in StartTags :
        token.self_closing =>
            LET r == process_token(TB, token)
                s == process_token(TB, [token EXCEPT !.self_closing = FALSE])
                e == IF s.res = "Ok"
                     THEN process_token(s.tb, EndTag(token.name)) ELSE s
            IN  /\ r = e
                /\ r.res # "InvalidElementClosed"
                /\ Accepted(token) =>
                     /\ r.res = "Ok"
                     /\ depth(r.tb) = depth(TB)
                     /\ Constructed(token, r.tb).children = <<>>
                     /\ Constructed(token, r.tb).name = token.name.name
                     /\ depth(TB) > 0 =>
                          Len(r.tb.stack[Len(stack)].children) =
                              Len(stack[Len(stack)].children) + 1

\* C13 (text): a Text token at depth > 0 adds one text node after the
\* children of the innermost open element and changes nothing else; at
\* depth 0 it changes nothing; it returns Ok.
C13_Text ==
    LET text == B(<<"t">>)
        n == Len(stack)
        r == process_token(TB, Text(text))
    IN  /\ r.res = "Ok"
        /\ r.tb.prefixes_stack = prefixes_stack
        /\ r.tb.root = root
        /\ Len(r.tb.stack) = n
        /\ \A i \in 1..(n - 1) : r.tb.stack[i] = stack[i]
        /\ n > 0 =>
             /\ r.tb.stack[n].children =
                    stack[n].children \o <<[node |-> "Text", text |-> text]>>
             /\ [r.tb.stack[n] EXCEPT !.children = <<>>] =
                    [stack[n] EXCEPT !.children = <<>>]

\* C13's case: text has been processed inside an element that is open
\* inside another, and is its last child.
C13_Witness ==
    /\ ret = "Ok"
    /\ Len(stack) >= 2
    /\ stack[Len(stack)].children # <<>>
    /\ stack[Len(stack)].children[Len(stack[Len(stack)].children)].node = "Text"

RECURSIVE Detached(_, _)
\* Node e is node o but for children detached from the front, of o or of
\* the elements below it.
Detached(e, o) ==
    IF e.node = "Text" THEN e = o
    ELSE /\ o.node = "Element"
         /\ [e EXCEPT !.children = <<>>] = [o EXCEPT !.children = <<>>]
         /\ Len(e.children) <= Len(o.children)
         /\ \A i \in 1..Len(e.children) :
                Detached(e.children[i],
                         o.children[Len(o.children) - Len(e.children) + i])

\* What a call of unshift_child made now does: it returns the first child
\* of the innermost open element, if there is one, and removes it; depth,
\* prefixes_stack, root and the other open elements stay as they are.
C14_Unshift ==
    LET n == Len(stack)
        u == unshift_child(TB)
    IN  /\ u.tb.prefixes_stack = prefixes_stack
        /\ u.tb.root = root
        /\ Len(u.tb.stack) = n
        /\ \A i \in 1..(n - 1) : u.tb.stack[i] = stack[i]
        /\ n = 0 => u.child = None
        /\ n > 0 =>
             /\ [u.tb.stack[n] EXCEPT !.children = <<>>] =
                    [stack[n] EXCEPT !.children = <<>>]
             /\ IF stack[n].children = <<>>
                THEN u.child = None /\ u.tb.stack[n].children = <<>>
                ELSE /\ u.child = Some(Head(stack[n].children))
                     /\ u.tb.stack[n].children = Tail(stack[n].children)

\* The builder, and the builder that processed the same tokens with no call
\* of unshift_child between them: each process_token call returned the same,
\* and the trees differ by the detached children only.
C14_SameAssembly ==
    /\ ret \in {"None", "Some"} \/ ret = plain_ret
    /\ prefixes_stack = plain.prefixes_stack
    /\ Len(stack) = Len(plain.stack)
    /\ \A i \in 1..Len(stack) : Detached(stack[i], plain.stack[i])
    /\ Len(root) = Len(plain.root)
    /\ root # None => Detached(root[1], plain.root[1])

\* C14 (streaming consumption): unshift_child removes at most the first
\* child of the innermost open element and leaves depth, prefixes_stack,
\* root and the other open elements unchanged, returning None at depth 0;
\* calls of it between process_token calls change no later result and
\* nothing of the tree but the absence of the detached children.
C14_Streaming == C14_Unshift /\ C14_SameAssembly

\* C14's case: a child was detached from an element that was then closed
\* and is root, without that child.
C14_Witness ==
    /\ ret = "Ok"
    /\ root # None
    /\ root # plain.root

----------------------------------------------------------------------------
(* namespace_set.rs and namespaces.rs, which define the same NamespaceSet. *)
(* The sets live in a heap, sets; an Rc<NamespaceSet> is the index of the  *)
(* set it points to.                                                       *)

\* struct NamespaceSet
NamespaceSet(parent, namespaces) ==
    [parent |-> parent, namespaces |-> namespaces]

\* impl Default for NamespaceSet
NamespaceSet_default == NamespaceSet(None, EmptyMap)

\* impl From<BTreeMap<Option<String>, String>> for NamespaceSet
from_map(namespaces) == NamespaceSet(None, namespaces)

\* impl From<String> for NamespaceSet
from_string(namespace) == NamespaceSet(None, Insert(EmptyMap, None, namespace))

\* impl From<Option<String>> for NamespaceSet
from_option(namespace) ==
    IF namespace = None THEN NamespaceSet_default
    ELSE from_string(namespace[1])

\* impl From<(Option<String>, String)> for NamespaceSet
from_prefix_namespace(prefix, namespace) ==
    NamespaceSet(None, Insert(EmptyMap, prefix, namespace))

\* impl From<(String, String)> for NamespaceSet
from_string_pair(prefix, namespace) ==
    from_prefix_namespace(Some(prefix), namespace)

\* NamespaceSet::declared_ns
declared_ns(set) == set.namespaces

\* A call that returns v, and a call whose recursion never ends (it runs
\* until the stack overflows).
Returned(v) == [k |-> "returned", val |-> v]
NeverReturns == [k |-> "overflow"]

RECURSIVE get_outermost(_, _, _, _)
\* get preferring the binding of the farthest ancestor.
get_outermost(heap, s, prefix, calls) ==
    LET own == IF prefix \in DOMAIN heap[s].namespaces
               THEN Returned(Some(heap[s].namespaces[prefix]))
               ELSE Returned(None)
    IN  IF heap[s].parent = None THEN own
        ELSE IF calls >= Len(heap) THEN NeverReturns
        ELSE LET up == get_outermost(heap, heap[s].parent[1], prefix, calls + 1)
             IN  IF up = Returned(None) THEN own ELSE up

RECURSIVE get(_, _, _, _)
\* NamespaceSet::get on set s of heap; calls counts the recursive calls made
\* so far.  After more calls than there are sets the recursion is in a
\* cycle of sets none of which binds prefix.
get(heap, s, prefix, calls) ==
    IF prefix \in DOMAIN heap[s].namespaces
    THEN Returned(Some(heap[s].namespaces[prefix]))
    ELSE IF heap[s].parent = None THEN Returned(None)
    ELSE IF calls >= Len(heap) THEN NeverReturns
    ELSE get(heap, heap[s].parent[1], prefix, calls + 1)

RECURSIVE has_any(_, _, _, _, _)
\* has going on to the parent when the set binds prefix to another URI.
has_any(heap, s, prefix, wanted_ns, calls) ==
    IF prefix \in DOMAIN heap[s].namespaces
          /\ heap[s].namespaces[prefix] = wanted_ns
    THEN Returned(TRUE)
    ELSE IF heap[s].parent = None THEN Returned(FALSE)
    ELSE IF calls >= Len(heap) THEN NeverReturns
    ELSE has_any(heap, heap[s].parent[1], prefix, wanted_ns, calls + 1)

RECURSIVE has(_, _, _, _, _)
\* NamespaceSet::has
has(heap, s, prefix, wanted_ns, calls) ==
    IF prefix \in DOMAIN heap[s].namespaces
    THEN Returned(heap[s].namespaces[prefix] = wanted_ns)
    ELSE IF heap[s].parent = None THEN Returned(FALSE)
    ELSE IF calls >= Len(heap) THEN NeverReturns
    ELSE has(heap, heap[s].parent[1], prefix, wanted_ns, calls + 1)

\* set_parent that also copies the parent's bindings the set lacks.
set_parent_inherit(heap, s, parent) ==
    [heap EXCEPT ![s] =
        NamespaceSet(Some(parent),
                     [x \in DOMAIN heap[s].namespaces
                            \cup DOMAIN heap[parent].namespaces |->
                         IF x \in DOMAIN heap[s].namespaces
                         THEN heap[s].namespaces[x]
                         ELSE heap[parent].namespaces[x]])]

\* NamespaceSet::set_parent: the heap after s.set_parent(parent).
set_parent(heap, s, parent) == [heap EXCEPT ![s].parent = Some(parent)]

----------------------------------------------------------------------------
(* NamespaceSets made, linked and queried *)

\* Number of NamespaceSets made in a run.
MaxSets == 3

NSPrefixes == {None, Some("x")}
NSUris == {"foo", "bar"}

\* The sets a run constructs.
NSMade ==
    { NamespaceSet_default,
      from_string("foo"),
      from_map([prefix \in NSPrefixes |-> "bar"]) }

Construct(set) ==
    /\ Len(sets) < MaxSets
    /\ sets' = Append(sets, set)
    /\ built' = Append(built, set.namespaces)
    /\ ns_ret' = [op |-> "from"]
    /\ UNCHANGED <<tokVars, tbVars, iqVars, cbVars>>

\* s.set_parent(parent), parent being an Rc to any set made so far.
SetParent(s, parent) ==
    /\ sets' = set_parent(sets, s, parent)
    /\ ns_ret' = [op |-> "set_parent"]
    /\ UNCHANGED <<built, tokVars, tbVars, iqVars, cbVars>>

Get(s, prefix) ==
    /\ ns_ret' = [op |-> "get", r |-> get(sets, s, prefix, 0)]
    /\ UNCHANGED <<sets, built, tokVars, tbVars, iqVars, cbVars>>

Has(s, prefix, wanted_ns) ==
    /\ ns_ret' = [op |-> "has", r |-> has(sets, s, prefix, wanted_ns, 0)]
    /\ UNCHANGED <<sets, built, tokVars, tbVars, iqVars, cbVars>>

InitNS == nsNew /\ tbNew /\ tokNew /\ iqNew /\ cbNew

NextNS ==
    \/ \E set \in NSMade : Construct(set)
    \/ \E s \in 1..Len(sets), parent \in 1..Len(sets) : SetParent(s, parent)
    \/ \E s \in 1..Len(sets), prefix \in NSPrefixes : Get(s, prefix)
    \/ \E s \in 1..Len(sets), prefix \in NSPrefixes, wanted_ns \in NSUris :
           Has(s, prefix, wanted_ns)

SpecNS == InitNS /\ [][NextNS]_vars

----------------------------------------------------------------------------
(* Properties of NamespaceSet *)

RECURSIVE Ancestor(_, _)
\* The set k parent links above set s, as Option.
Ancestor(s, k) ==
    IF k = 0 THEN Some(s)
    ELSE IF sets[s].parent = None THEN None
    ELSE Ancestor(sets[s].parent[1], k - 1)

\* The parent links from s end: s is the first set of a chain.
IsChain(s) == Ancestor(s, Len(sets)) = None

\* How far above s the sets are that bind prefix.
Binders(s, prefix) ==
    {k \in 0..(Len(sets) - 1) :
        /\ Ancestor(s, k) # None
        /\ prefix \in DOMAIN sets[Ancestor(s, k)[1]].namespaces}

\* The URI of the nearest set of s's chain that binds prefix, as Option.
Nearest(s, prefix) ==
    IF Binders(s, prefix) = {} THEN None
    ELSE LET k == CHOOSE b \in Binders(s, prefix) :
                      \A c \in Binders(s, prefix) : b <= c
         IN  Some(sets[Ancestor(s, k)[1]].namespaces[prefix])

\* C15 (get): on every chain of sets, get(prefix) returns the URI bound to
\* prefix by the nearest set of the chain that binds it, the set itself
\* first, and None when no set of the chain binds it.
C15_Get ==
    \A s \in 1..Len(sets), prefix \in NSPrefixes :
        IsChain(s) => get(sets, s, prefix, 0) = Returned(Nearest(s, prefix))

\* C15's case: get has returned the binding of a set's parent, which
\* overrides another binding of the grandparent.
C15_Witness ==
    /\ ns_ret.op = "get"
    /\ ns_ret.r = Returned(Some("bar"))
    /\ \E s \in 1..Len(sets) :
           /\ IsChain(s)
           /\ Binders(s, None) = {1, 2}
           /\ sets[Ancestor(s, 2)[1]].namespaces[None] = "foo"
           /\ get(sets, s, None, 0) = ns_ret.r

\* C16 (has): has(prefix, uri) is true exactly when get(prefix) is
\* Some(uri), and returns whenever get returns.
C16_HasIsGet ==
    \A s \in 1..Len(sets), prefix \in NSPrefixes, uri \in NSUris :
        LET g == get(sets, s, prefix, 0)
            h == has(sets, s, prefix, uri, 0)
        IN  IF g = NeverReturns THEN h = NeverReturns
            ELSE h = Returned(g.val = Some(uri))

\* C16's case: has has returned false for a URI that an ancestor binds the
\* prefix to, the set itself binding it to another.
C16_Witness ==
    /\ ns_ret.op = "has"
    /\ ns_ret.r = Returned(FALSE)
    /\ \E s \in 1..Len(sets) :
           /\ IsChain(s)
           /\ Binders(s, None) = {0, 1}
           /\ sets[s].namespaces[None] = "bar"
           /\ sets[Ancestor(s, 1)[1]].namespaces[None] = "foo"
           /\ has(sets, s, None, "foo", 0) = Returned(FALSE)

\* C17 (local map): declared_ns of every set is the bindings the set was
\* constructed with, whatever calls were made since.
C17_LocalMapFixed ==
    \A s \in 1..Len(sets) : declared_ns(sets[s]) = built[s]

\* C17's case: a set has been given a parent with other bindings and then
\* a set has been queried.
C17_Witness ==
    /\ ns_ret.op \in {"get", "has"}
    /\ \E s \in 1..Len(sets) :
           /\ sets[s].parent # None
           /\ declared_ns(sets[sets[s].parent[1]]) # declared_ns(sets[s])

\* C18 (acyclic): the parent links of every set end; no set is reached from
\* itself.
C18_Acyclic == \A s \in 1..Len(sets) : IsChain(s)

\* C19 (parent installed once): a set that has a parent keeps that parent,
\* whatever call is made.
C19_ParentOnce ==
    [][\A s \in 1..Len(sets) :
           sets[s].parent # None => sets'[s].parent = sets[s].parent]_vars

----------------------------------------------------------------------------
(* Entity decoding *)

\* The character an entity reference with this body (the bytes between &
\* and ;) stands for, as Option: one of the five names, # and decimal
\* digits, or #x and hexadecimal digits, of a code point that is a char.
RefChar(body) ==
    LET digits == IF Len(body) >= 2 /\ body[1] = 35 /\ body[2] = 120
                  THEN Drop(body, 2)
                  ELSE IF Len(body) >= 1 /\ body[1] = 35 THEN Drop(body, 1)
                  ELSE <<>>
        hex == Len(body) >= 2 /\ body[2] = 120
        sig == StripZeros(digits)
        n == ValueOf(sig, IF hex THEN 16 ELSE 10)
    IN  IF body = B(<<"a", "m", "p">>) THEN Some(38)
        ELSE IF body = B(<<"l", "t">>) THEN Some(60)
        ELSE IF body = B(<<"g", "t">>) THEN Some(62)
        ELSE IF body = B(<<"q", "u", "o", "t">>) THEN Some(34)
        ELSE IF body = B(<<"a", "p", "o", "s">>) THEN Some(39)
        ELSE IF /\ digits # <<>>
                /\ \A i \in 1..Len(digits) :
                       IF hex THEN is_hex_digit(digits[i])
                       ELSE is_dec_digit(digits[i])
                /\ Len(sig) <= (IF hex THEN 6 ELSE 7)
                /\ n <= 1114111
                /\ ~(n >= 55296 /\ n <= 57343)
        THEN Some(n)
        ELSE None

RECURSIVE Decoded(_)
\* The characters of a run of ASCII bytes and entity references, as Option:
\* None when the run holds a & that starts no reference RefChar knows.
Decoded(text) ==
    IF text = <<>> THEN Some(<<>>)
    ELSE IF text[1] >= 128 THEN None
    ELSE IF text[1] # 38
    THEN LET rest == Decoded(Tail(text))
         IN  IF rest = None THEN None ELSE Some(<<text[1]>> \o rest[1])
    ELSE LET IsSemi(b) == b = 59
             j == Position(IsSemi, text)
         IN  IF j = 0 \/ RefChar(SubSeq(text, 2, j - 1)) = None THEN None
             ELSE LET rest == Decoded(Drop(text, j))
                  IN  IF rest = None THEN None
                      ELSE Some(RefChar(SubSeq(text, 2, j - 1)) \o rest[1])

\* The text run the buffer starts with, when a < ends it: the bytes before
\* the first <.
TextRun(s) ==
    LET IsLt(b) == b = 60
    IN  IF Position(IsLt, s) = 0 THEN <<>> ELSE Take(s, Position(IsLt, s) - 1)

\* The value of the attribute of a buffer that starts with <a a=' and holds
\* the closing quote and > : the bytes between the quotes.
AttrValue(s) ==
    LET open == B(<<"<", "a", " ", "a", "=", "'">>)
        IsQuote(b) == b = 39
        q == Position(IsQuote, Drop(s, Len(open)))
    IN  IF HasPrefix(s, open) /\ q > 0 /\ Len(s) > Len(open) + q
           /\ s[Len(open) + q + 1] = 62
        THEN Some(SubSeq(s, Len(open) + 1, Len(open) + q - 1))
        ELSE None

\* C20 (entity decoding): a pull on a buffer that starts with a text run
\* ended by <, or with a start tag with one attribute, returns the token
\* whose text, or attribute value, is the run with &amp; &lt; &gt; &quot;
\* &apos; &#N; and &#xH; replaced by their characters and every other byte
\* unchanged and in order.
C20_EntityDecoding ==
    [][PullStep =>
          /\ TextRun(buffer) # <<>> /\ Decoded(TextRun(buffer)) # None =>
                /\ last' = "some"
                /\ tokens' = Append(tokens, Text(Decoded(TextRun(buffer))[1]))
                /\ buffer' = Drop(buffer, Len(TextRun(buffer)))
          /\ AttrValue(buffer) # None /\ Decoded(AttrValue(buffer)[1]) # None =>
                /\ last' = "some"
                /\ tokens'[Len(tokens')].type = "StartTag"
                /\ Len(tokens'[Len(tokens')].attrs) = 1
                /\ tokens'[Len(tokens')].attrs[1].value =
                       Decoded(AttrValue(buffer)[1])[1]]_vars

----------------------------------------------------------------------------
(* Numeric references that are no char *)

\* body is # and decimal digits, or #x and hexadecimal digits.
IsNumericRef(body) ==
    \/ /\ Len(body) >= 3
       /\ body[1] = 35
       /\ body[2] = 120
       /\ \A i \in 3..Len(body) : is_hex_digit(body[i])
    \/ /\ Len(body) >= 2
       /\ body[1] = 35
       /\ \A i \in 2..Len(body) : is_dec_digit(body[i])

RECURSIVE DecodedOrEmpty(_)
\* As Decoded, a numeric reference to a number that is no char standing for
\* the empty string.
DecodedOrEmpty(text) ==
    IF text = <<>> THEN Some(<<>>)
    ELSE IF text[1] >= 128 THEN None
    ELSE IF text[1] # 38
    THEN LET rest == DecodedOrEmpty(Tail(text))
         IN  IF rest = None THEN None ELSE Some(<<text[1]>> \o rest[1])
    ELSE LET IsSemi(b) == b = 59
             j == Position(IsSemi, text)
             body == SubSeq(text, 2, j - 1)
         IN  IF j = 0 \/ (RefChar(body) = None /\ ~IsNumericRef(body)) THEN None
             ELSE LET rest == DecodedOrEmpty(Drop(text, j))
                  IN  IF rest = None THEN None
                      ELSE Some(RefChar(body) \o rest[1])

\* C21 (invalid scalars): a pull on a buffer that starts with a text run
\* ended by < in which a numeric reference names a surrogate, a number above
\* 0x10FFFF or a number too large for 32 bits returns the Text token of the
\* run with that reference decoded to the empty string; it returns no error.
C21_InvalidScalarIsEmpty ==
    [][PullStep /\ TextRun(buffer) # <<>>
          /\ Decoded(TextRun(buffer)) = None
          /\ DecodedOrEmpty(TextRun(buffer)) # None
       => /\ last' = "some"
          /\ tokens' = Append(tokens, Text(DecodedOrEmpty(TextRun(buffer))[1]))
          /\ buffer' = Drop(buffer, Len(TextRun(buffer)))]_vars

----------------------------------------------------------------------------
(* CDATA sections and text runs *)

CDataOpen == B(<<"<", "!", "[", "C", "D", "A", "T", "A", "[">>)

\* The payload of the CDATA section s starts with, as Option: the bytes
\* between the opener and the first ]]> after it.
CDataPayload(s) ==
    LET Ends(i) == SubSeq(s, i, i + 2) = B(<<"]", "]", ">">>)
        I == {i \in (Len(CDataOpen) + 1)..(Len(s) - 2) : Ends(i)}
    IN  IF HasPrefix(s, CDataOpen) /\ I # {}
        THEN Some(SubSeq(s, Len(CDataOpen) + 1,
                         (CHOOSE i \in I : \A j \in I : i <= j) - 1))
        ELSE None

\* C22 (CDATA): a pull on a buffer that starts with a complete CDATA section
\* of ASCII bytes returns one Text token whose payload is the bytes between
\* the opener and the first ]]>, unchanged, and removes exactly the section
\* from the buffer.
C22_CDataVerbatim ==
    [][PullStep /\ CDataPayload(buffer) # None
          /\ (\A i \in 1..Len(buffer) : buffer[i] < 128)
       => /\ last' = "some"
          /\ tokens' = Append(tokens, Text(CDataPayload(buffer)[1]))
          /\ buffer' = Drop(buffer, Len(CDataOpen)
                                      + Len(CDataPayload(buffer)[1]) + 3)]_vars

\* C22's case: pull has returned the payload &lt;] of a CDATA section, the
\* entity reference in it not decoded.
C22_Witness ==
    /\ last = "some"
    /\ tokens # <<>>
    /\ tokens[Len(tokens)] = Text(B(<<"&", "l", "t", ";", "]">>))
    /\ buffer = B(<<"x", "<">>)

\* C23 (end of a text run): when pull returns a Text token for a buffer that
\* starts with a text run, the token is not empty and the buffer left starts
\* with the < that ended the run.
C23_TextRunEnds ==
    [][PullStep /\ buffer # <<>> /\ buffer[1] # 60
          /\ last' = "some" /\ tokens'[Len(tokens')].type = "Text"
       => /\ tokens'[Len(tokens')].text # <<>>
          /\ buffer' # <<>>
          /\ buffer'[1] = 60]_vars

----------------------------------------------------------------------------
(* Names *)

\* The name of a buffer that is one start tag <name> whose name is made of
\* letters and colons, as Option.
TagName(s) ==
    IF /\ Len(s) >= 3
       /\ s[1] = 60
       /\ s[Len(s)] = 62
       /\ \A i \in 2..(Len(s) - 1) : s[i] = 58 \/ (s[i] >= 97 /\ s[i] <= 122)
    THEN Some(SubSeq(s, 2, Len(s) - 1))
    ELSE None

\* q is s split at its first colon: without colon in s no prefix and s as
\* localname; otherwise a prefix without colon, and prefix, colon and
\* localname make s.
SplitAtFirstColon(q, s) ==
    IF \A i \in 1..Len(s) : s[i] # 58
    THEN q.prefix = None /\ q.name = s
    ELSE /\ q.prefix # None
         /\ \A i \in 1..Len(q.prefix[1]) : q.prefix[1][i] # 58
         /\ q.prefix[1] \o <<58>> \o q.name = s

\* C24 (QName from string): the name of a start tag is split at its first
\* colon into prefix and localname; without colon the prefix is None and the
\* localname the whole name; prefix, colon and localname reproduce it.
C24_SplitAtFirstColon ==
    [][PullStep /\ TagName(buffer) # None
       => /\ last' = "some"
          /\ tokens'[Len(tokens')].type = "StartTag"
          /\ SplitAtFirstColon(tokens'[Len(tokens')].name, TagName(buffer)[1])]_vars

\* C24's case: pull has returned the start tag of <a:b:c>, its name split
\* into a and b:c.
C24_Witness ==
    /\ last = "some"
    /\ tokens # <<>>
    /\ tokens[Len(tokens)] =
           StartTag([prefix |-> Some(B(<<"a">>)), name |-> B(<<"b", ":", "c">>)],
                    <<>>, FALSE)

\* A localname as the specification defines it: not empty, without
\* whitespace, colon, slash, > or =.
IsLocalName(name) ==
    /\ name # <<>>
    /\ \A i \in 1..Len(name) : name[i] \notin {9, 10, 13, 32, 58, 47, 62, 61}

\* C25 (localnames): the localname of every element and attribute name of
\* every token pull has returned is not empty and holds no whitespace,
\* colon, slash, > or =.
C25_LocalNames ==
    \A i \in 1..Len(tokens) :
        /\ tokens[i].type \in {"StartTag", "EndTag"} =>
               IsLocalName(tokens[i].name.name)
        /\ tokens[i].type = "StartTag" =>
               \A j \in 1..Len(tokens[i].attrs) :
                   IsLocalName(tokens[i].attrs[j].name.name)

----------------------------------------------------------------------------
(* Attributes of a start tag *)

\* An attribute that declares a namespace: xmlns or xmlns:P.
IsDeclaration(attr) ==
    \/ attr.name.prefix = None /\ attr.name.name = xmlns
    \/ attr.name.prefix = Some(xmlns)

\* The key an attribute that declares no namespace is stored under:
\* prefix:localname, or the localname of a name without prefix.
AttributeKey(attr) ==
    IF attr.name.prefix = None THEN attr.name.name
    ELSE attr.name.prefix[1] \o B(<<":">>) \o attr.name.name

\* The attributes of a start tag that declare no namespace, by key; of two
\* with one key the later one counts.
OwnAttributes(attrs) ==
    LET A == {i \in 1..Len(attrs) : ~IsDeclaration(attrs[i])}
    IN  [key \in {AttributeKey(attrs[i]) : i \in A} |->
            attrs[CHOOSE i \in A :
                    /\ AttributeKey(attrs[i]) = key
                    /\ \A j \in A : AttributeKey(attrs[j]) = key => j <= i].value]

\* C26 (attribute partition): whatever start tag is processed next, the
\* element constructed for it has as namespace bindings exactly the tag's
\* xmlns and xmlns:P attributes, and as attributes exactly the others,
\* keyed prefix:localname or by the bare localname, with their values.
C26_AttributePartition ==
    \A token \in StartTags :
        LET r == process_token(TB, token)
        IN  r.res = "Ok" =>
                /\ Constructed(token, r.tb).prefixes = OwnDecls(token.attrs)
                /\ Constructed(token, r.tb).attributes =
                       OwnAttributes(token.attrs)

\* C26's case: the open element was made from a start tag with the
\* attributes xmlns:p, p:c and c.
C26_Witness ==
    /\ ret = "Ok"
    /\ stack # <<>>
    /\ DOMAIN stack[Len(stack)].prefixes = {Some(B(<<"p">>))}
    /\ DOMAIN stack[Len(stack)].attributes =
           {B(<<"p", ":", "c">>), B(<<"c">>)}

\* C27 (end tag at depth 0): whatever EndTag is processed next while no
\* element is open, process_token returns Ok and leaves stack,
\* prefixes_stack and root as they are.
C27_EndTagOnEmptyStack ==
    depth(TB) = 0 =>
        \A name \in TBEndNames :
            LET r == process_token(TB, EndTag(name))
            IN  /\ r.res = "Ok"
                /\ r.tb.stack = stack
                /\ r.tb.prefixes_stack = prefixes_stack
                /\ r.tb.root = root

----------------------------------------------------------------------------
(* iq.rs: Iq::try_from.  An iq element is its type attribute, as Option,   *)
(* and its child elements; a child is "error" (an error element that       *)
(* StanzaError::try_from accepts), "bad_error" (one it rejects) or "other". *)
(* The attributes from, to and id are absent or well-formed, and the       *)
(* element is an iq of the default namespace (check_self! passes).         *)

IqOk(payload) == [k |-> "Ok", payload |-> payload]
IqErr(msg) == [k |-> "Err", msg |-> msg]

\* Error::ParseError("Wrong number of children in iq element.")
WrongNumber == IqErr("Wrong number of children in iq element.")

\* The end of try_from: the IqType for type_ and the payloads found.
IqType(type_, payload, error_payload) ==
    IF type_ = "get"
    THEN IF payload # None THEN IqOk([type |-> "Get", elem |-> payload])
         ELSE WrongNumber
    ELSE IF type_ = "set"
    THEN IF payload # None THEN IqOk([type |-> "Set", elem |-> payload])
         ELSE WrongNumber
    ELSE IF type_ = "result"
    THEN IqOk([type |-> "Result", elem |-> payload])
    ELSE IF type_ = "error"
    THEN IF error_payload # None
         THEN IqOk([type |-> "Error", elem |-> error_payload])
         ELSE WrongNumber
    ELSE IqErr("Unknown iq type.")

RECURSIVE iq_children(_, _, _, _, _)
\* The loop of try_from over root.children()[i..].
iq_children(type_, children, i, payload, error_payload) ==
    IF i > Len(children) THEN IqType(type_, payload, error_payload)
    ELSE IF payload # None THEN WrongNumber
    ELSE IF type_ = "error"
    THEN IF children[i] \in {"error", "bad_error"}
         THEN IF error_payload # None THEN WrongNumber
              ELSE IF children[i] = "bad_error" THEN IqErr("StanzaError")
              ELSE iq_children(type_, children, i + 1, payload,
                               Some(children[i]))
         ELSE IF Len(children) # 2 THEN WrongNumber
         ELSE iq_children(type_, children, i + 1, payload, error_payload)
    ELSE iq_children(type_, children, i + 1, Some(children[i]), error_payload)

\* try_from looking at the type before the children.
try_from_type_first(elem) ==
    IF elem.type = None THEN IqErr("Required attribute 'type' missing.")
    ELSE IF elem.type[1] \notin {"get", "set", "result", "error"}
    THEN IqErr("Unknown iq type.")
    ELSE iq_children(elem.type[1], elem.children, 1, None, None)

\* impl TryFrom<Element> for Iq
try_from(elem) ==
    IF elem.type = None THEN IqErr("Required attribute 'type' missing.")
    ELSE iq_children(elem.type[1], elem.children, 1, None, None)

\* Number of children of an iq element.
MaxChildren == 3

IqTypes == {None, Some("get"), Some("set"), Some("result"), Some("error"),
            Some("foo")}

IqElements ==
    {[type |-> t, children |-> c] :
        t \in IqTypes,
        c \in UNION {[1..n -> {"error", "bad_error", "other"}] :
                        n \in 0..MaxChildren}}

InitIq ==
    /\ iq_root \in IqElements
    /\ iq_res = [k |-> "none"]
    /\ tokNew /\ tbNew /\ nsNew /\ cbNew

\* Iq::try_from on the element
TryFrom ==
    /\ iq_res.k = "none"
    /\ iq_res' = try_from(iq_root)
    /\ UNCHANGED <<iq_root, tokVars, tbVars, nsVars, cbVars>>

NextIq == TryFrom

SpecIq == InitIq /\ [][NextIq]_vars

\* What the claim says of every type but an unknown one: without type the
\* element is rejected for the missing attribute; get and set are accepted
\* exactly with one child, result exactly with at most one; error is
\* accepted only with an error child and rejected for the number of
\* children when there is none.
IqKnownTypes ==
    LET n == Len(iq_root.children)
        type_ == iq_root.type
        HasError == \E i \in 1..n : iq_root.children[i] \in {"error", "bad_error"}
    IN  /\ type_ = None =>
               iq_res = IqErr("Required attribute 'type' missing.")
        /\ type_ \in {Some("get"), Some("set")} => (iq_res.k = "Ok" <=> n = 1)
        /\ type_ = Some("result") => (iq_res.k = "Ok" <=> n <= 1)
        /\ type_ = Some("error") =>
               /\ iq_res.k = "Ok" => HasError
               /\ ~HasError => iq_res = WrongNumber

IsUnknownType ==
    iq_root.type \notin {None, Some("get"), Some("set"), Some("result"),
                         Some("error")}

\* C28 as stated (Iq::try_from): as IqKnownTypes, and an element of any
\* other type is rejected with "Unknown iq type.".
C28_AsStated ==
    iq_res.k # "none" =>
        /\ IqKnownTypes
        /\ IsUnknownType => iq_res = IqErr("Unknown iq type.")

\* C28 (Iq::try_from): as IqKnownTypes, and an element of any other type is
\* rejected, with "Unknown iq type." when it has at most one child and with
\* "Wrong number of children in iq element." when it has more.
C28_TryFrom ==
    iq_res.k # "none" =>
        /\ IqKnownTypes
        /\ IsUnknownType =>
               iq_res = IF Len(iq_root.children) <= 1
                        THEN IqErr("Unknown iq type.")
                        ELSE WrongNumber

\* C28's case: an element of an unknown type with two children has been
\* rejected.
C28_Witness ==
    /\ iq_res.k = "Err"
    /\ IsUnknownType
    /\ Len(iq_root.children) = 2

----------------------------------------------------------------------------
(* client/bind.rs: ClientBind.  The XMPPStream is its jid and whether its  *)
(* stream_features hold a bind child; the connection under it is what the  *)
(* sink has done with the request (out), the packets that have arrived and *)
(* not been read (inbox), those the stream has yielded (read), and whether *)
(* the peer has closed (eof), the stream has yielded its end (ended) or    *)
(* the transport has failed (broken).                                      *)

NS_XMPP_BIND == "urn:ietf:params:xml:ns:xmpp-bind"
BIND_REQ_ID == "resource-bind"

XMPPStream(jid, bind) == [jid |-> jid, bind |-> bind]

\* Packet::Stanza(el): el's name, its id and type attributes, and the text
\* of its bind/jid child of NS_XMPP_BIND (None without such a child).
Stanza(name, id, type, jid) ==
    [stanza |-> TRUE, name |-> name, id |-> id, type |-> type, jid |-> jid]

\* Any other Packet (Text, StreamStart, StreamEnd).
NotStanza ==
    [stanza |-> FALSE, name |-> "", id |-> None, type |-> None, jid |-> None]

\* The future: its variant, the stream it holds, the connection, and what
\* its last poll returned.
Future(state, stream, wire, r) ==
    [state |-> state, stream |-> stream, wire |-> wire, ret |-> r]

CbReady(stream) == [k |-> "Ready", stream |-> stream]
CbNotReady == [k |-> "NotReady"]
CbErr(msg) == [k |-> "Err", msg |-> msg]
\* poll does not return: it calls itself without end
CbNever == [k |-> "never"]
\* unreachable!()
CbPanic == [k |-> "panic"]

\* ClientBind::new on a stream over the connection wire
new(stream, wire) ==
    IF ~stream.bind
    THEN Future("Unsupported", Some(stream), wire, [k |-> "new"])
    ELSE Future("WaitSend", Some(stream), [wire EXCEPT !.out = "held"],
                [k |-> "new"])

\* send.poll(): Send gives the request to the sink (start_send), then
\* flushes it (poll_complete), as far as the sink lets it this time.
send_poll(out, sink) ==
    IF sink = "Err" THEN [r |-> "Err", out |-> out]
    ELSE IF sink = "Flush" THEN [r |-> "Ready", out |-> "flushed"]
    ELSE IF sink = "Accept" /\ out = "held"
    THEN [r |-> "NotReady", out |-> "buffered"]
    ELSE [r |-> "NotReady", out |-> out]

\* stream.poll(): the next packet that has arrived; without one, the
\* failure of the transport, the end of the stream once the peer has
\* closed, or NotReady.  A stream polled after it has yielded its end
\* does what `after` says.
stream_poll(wire, after) ==
    IF wire.inbox # <<>>
    THEN [r |-> "Ready", item |-> Some(Head(wire.inbox)),
          wire |-> [wire EXCEPT !.inbox = Tail(@),
                                !.read = Append(@, Head(wire.inbox))]]
    ELSE IF wire.broken THEN [r |-> "Err", item |-> None, wire |-> wire]
    ELSE IF wire.ended THEN [r |-> after, item |-> None, wire |-> wire]
    ELSE IF wire.eof
    THEN [r |-> "Ready", item |-> None, wire |-> [wire EXCEPT !.ended = TRUE]]
    ELSE [r |-> "NotReady", item |-> None, wire |-> wire]

\* fn get_bind_response_jid: Jid::from_str fails on the empty text
get_bind_response_jid(iq) ==
    IF iq.jid = None THEN None
    ELSE IF iq.jid[1] = "" THEN None
    ELSE Some(iq.jid[1])

\* The guard of the first arm of the WaitRecv match.
IsBindResponse(item) ==
    /\ item # None
    /\ item[1].stanza
    /\ item[1].name = "iq"
    /\ item[1].id = Some(BIND_REQ_ID)

\* The first arm of the WaitRecv match taking any type for a result.
bind_response_any_type(F, wire, iq) ==
    LET jid == get_bind_response_jid(iq)
        stream == IF jid = None THEN F.stream[1]
                  ELSE [F.stream[1] EXCEPT !.jid = jid[1]]
    IN  Future("Invalid", None, wire, CbReady(stream))

\* The first arm of the WaitRecv match, for the response iq.
bind_response(F, wire, iq) ==
    IF iq.type = Some("result")
    THEN LET jid == get_bind_response_jid(iq)
             stream == IF jid = None THEN F.stream[1]
                       ELSE [F.stream[1] EXCEPT !.jid = jid[1]]
         IN  Future("Invalid", None, wire, CbReady(stream))
    ELSE Future("Invalid", None, wire, CbErr("resource bind response"))

\* poll handing the stream back as soon as the request is sent.
poll_without_response(F, sink, after) ==
    IF F.state = "Unsupported"
    THEN Future("Invalid", None, F.wire, CbReady(F.stream[1]))
    ELSE IF F.state = "WaitSend"
    THEN LET s == send_poll(F.wire.out, sink)
             wire == [F.wire EXCEPT !.out = s.out]
         IN  IF s.r = "Ready"
             THEN Future("Invalid", None, wire, CbReady(F.stream[1]))
             ELSE IF s.r = "NotReady"
             THEN Future("WaitSend", F.stream, wire, CbNotReady)
             ELSE Future("Invalid", None, wire, CbErr("sink"))
    ELSE Future("Invalid", None, F.wire, CbPanic)

RECURSIVE poll_leaves_invalid(_, _, _)
\* poll not putting WaitRecv back when the stream is not ready.
poll_leaves_invalid(F, sink, after) ==
    IF F.state = "Unsupported"
    THEN Future("Invalid", None, F.wire, CbReady(F.stream[1]))
    ELSE IF F.state = "WaitSend"
    THEN LET s == send_poll(F.wire.out, sink)
             wire == [F.wire EXCEPT !.out = s.out]
         IN  IF s.r = "Ready"
             THEN poll_leaves_invalid(
                      Future("WaitRecv", F.stream, wire, F.ret), sink, after)
             ELSE IF s.r = "NotReady"
             THEN Future("WaitSend", F.stream, wire, CbNotReady)
             ELSE Future("Invalid", None, wire, CbErr("sink"))
    ELSE IF F.state = "WaitRecv"
    THEN LET p == stream_poll(F.wire, after)
         IN  IF p.r = "Ready" /\ IsBindResponse(p.item)
             THEN bind_response(F, p.wire, p.item[1])
             ELSE IF p.r = "Ready"
             THEN IF p.item = None /\ F.wire.ended /\ after = "Ready"
                  THEN Future("WaitRecv", F.stream, p.wire, CbNever)
                  ELSE poll_leaves_invalid(
                           Future("WaitRecv", F.stream, p.wire, F.ret),
                           sink, after)
             ELSE IF p.r = "NotReady"
             THEN Future("Invalid", None, p.wire, CbNotReady)
             ELSE Future("Invalid", None, p.wire, CbErr("stream"))
    ELSE Future("Invalid", None, F.wire, CbPanic)

RECURSIVE poll(_, _, _)
\* impl Future for ClientBind: poll, with what the sink does this time
\* (sink) and what the stream does when polled after its end (after).
poll(F, sink, after) ==
    IF F.state = "Unsupported"
    THEN Future("Invalid", None, F.wire, CbReady(F.stream[1]))
    ELSE IF F.state = "WaitSend"
    THEN LET s == send_poll(F.wire.out, sink)
             wire == [F.wire EXCEPT !.out = s.out]
         IN  IF s.r = "Ready"
             THEN poll(Future("WaitRecv", F.stream, wire, F.ret), sink, after)
             ELSE IF s.r = "NotReady"
             THEN Future("WaitSend", F.stream, wire, CbNotReady)
             ELSE Future("Invalid", None, wire, CbErr("sink"))
    ELSE IF F.state = "WaitRecv"
    THEN LET p == stream_poll(F.wire, after)
         IN  IF p.r = "Ready" /\ IsBindResponse(p.item)
             THEN bind_response(F, p.wire, p.item[1])
             ELSE IF p.r = "Ready"
             THEN IF p.item = None /\ F.wire.ended /\ after = "Ready"
                  THEN Future("WaitRecv", F.stream, p.wire, CbNever)
                  ELSE poll(Future("WaitRecv", F.stream, p.wire, F.ret),
                            sink, after)
             ELSE IF p.r = "NotReady"
             THEN Future("WaitRecv", F.stream, p.wire, CbNotReady)
             ELSE Future("Invalid", None, p.wire, CbErr("stream"))
    ELSE Future("Invalid", None, F.wire, CbPanic)

\* Number of packets that arrive on the connection.
MaxPackets == 2

Streams == {XMPPStream("a@b/r", bind) : bind \in BOOLEAN}

Packets ==
    {Stanza("iq", Some(BIND_REQ_ID), Some("result"), jid) :
        jid \in {None, Some(""), Some("a@b/s")}}
    \cup {Stanza("iq", Some(BIND_REQ_ID), type, None) :
             type \in {Some("error"), None}}
    \cup {Stanza("iq", Some("other"), Some("result"), Some("a@b/s")),
          Stanza("iq", None, Some("result"), Some("a@b/s")),
          Stanza("message", Some(BIND_REQ_ID), Some("result"), Some("a@b/s")),
          NotStanza}

\* What the sink does at one send.poll(), and what the stream does at a
\* stream.poll() after its end.
SinkSteps == {"NotReady", "Accept", "Flush", "Err"}
AfterEnd == {"Ready", "NotReady", "Err"}

\* The future in the variables.
CB == Future(cb_state, cb_stream, cb_wire, cb_ret)

\* ClientBind::new(stream) on a fresh connection
InitBind ==
    /\ \E stream \in Streams :
           LET F == new(stream, [out |-> "idle", inbox |-> <<>>,
                                 read |-> <<>>, eof |-> FALSE,
                                 ended |-> FALSE, broken |-> FALSE])
           IN  /\ cb_state = F.state
               /\ cb_stream = F.stream
               /\ cb_wire = F.wire
               /\ cb_ret = F.ret
    /\ tokNew /\ tbNew /\ nsNew /\ iqNew

\* One call of poll; none follows a call that did not return.
Poll ==
    /\ cb_ret.k \notin {"never", "panic"}
    /\ \E sink \in SinkSteps, after \in AfterEnd :
           LET F == poll(CB, sink, after)
           IN  /\ cb_state' = F.state
               /\ cb_stream' = F.stream
               /\ cb_wire' = F.wire
               /\ cb_ret' = F.ret
    /\ UNCHANGED <<tokVars, tbVars, nsVars, iqVars>>

\* The peer's next packet arrives.
Arrive ==
    /\ ~cb_wire.eof
    /\ Len(cb_wire.inbox) + Len(cb_wire.read) < MaxPackets
    /\ \E p \in Packets :
           cb_wire' = [cb_wire EXCEPT !.inbox = Append(@, p)]
    /\ UNCHANGED <<cb_state, cb_stream, cb_ret, tokVars, tbVars, nsVars,
                   iqVars>>

\* The peer closes the connection.
Close ==
    /\ ~cb_wire.eof
    /\ cb_wire' = [cb_wire EXCEPT !.eof = TRUE]
    /\ UNCHANGED <<cb_state, cb_stream, cb_ret, tokVars, tbVars, nsVars,
                   iqVars>>

\* The transport fails.
Break ==
    /\ ~cb_wire.broken
    /\ cb_wire' = [cb_wire EXCEPT !.broken = TRUE]
    /\ UNCHANGED <<cb_state, cb_stream, cb_ret, tokVars, tbVars, nsVars,
                   iqVars>>

NextBind == Poll \/ Arrive \/ Close \/ Break

SpecBind == InitBind /\ [][NextBind]_vars

\* A response to the bind request is among the packets the stream yielded.
ResponseRead ==
    \E i \in 1..Len(cb_wire.read) : IsBindResponse(Some(cb_wire.read[i]))

\* Without bind in the features the future is Unsupported and has sent
\* nothing; a stream with bind comes back from poll only once the request
\* is flushed and a response to it has been read.
C29_HandBack ==
    /\ cb_stream # None /\ ~cb_stream[1].bind =>
           cb_state = "Unsupported" /\ cb_ret.k = "new"
    /\ cb_ret.k = "Ready" /\ ~cb_ret.stream.bind => cb_wire.out = "idle"
    /\ cb_ret.k = "Ready" /\ cb_ret.stream.bind =>
           cb_wire.out = "flushed" /\ ResponseRead

\* The poll of an Unsupported future returns Ready with the stream it
\* holds, and nothing is sent.
C29_FirstPoll ==
    Poll /\ cb_state = "Unsupported" =>
        /\ cb_ret' = CbReady(cb_stream[1])
        /\ cb_wire' = cb_wire

\* C29 (ClientBind hand-back): on a stream whose features have no bind the
\* future sends nothing and its first poll returns Ready with the same
\* stream, jid unchanged; on a stream with bind, poll returns Ready only
\* after the request is fully sent and a response to it has been received.
C29_Bind == []C29_HandBack /\ [][C29_FirstPoll]_vars

\* C29's case: a stream that advertises bind has been handed back after an
\* unrelated packet and then the response were read.
C29_Witness ==
    /\ cb_ret.k = "Ready"
    /\ cb_ret.stream.bind
    /\ Len(cb_wire.read) = 2
    /\ ~IsBindResponse(Some(cb_wire.read[1]))

\* C30 (drain termination): every pull that returns Ok(Some(_)) removes at
\* least one byte from the buffer, so pulls without a push in between reach
\* Ok(None) or Err after at most as many calls as the buffer has bytes.
C30_DrainTerminates ==
    [][PullStep /\ last' = "some" => Len(buffer') < Len(buffer)]_vars

----------------------------------------------------------------------------
(* Scope exit *)

\* The elements that have been closed and are still in the tree: root and
\* the element children of the open elements.
ClosedElements ==
    (IF root = None THEN {} ELSE {root[1]})
        \cup UNION {{stack[i].children[j] : j \in 1..Len(stack[i].children)} :
                       i \in 1..Len(stack)}

\* Some closed element declares the prefix.
ClosedDeclares(prefix) ==
    \E el \in {e \in ClosedElements : e.node = "Element"} :
        prefix \in DOMAIN el.prefixes

\* C31 (scope exit): whatever start tag is processed next, when its prefix
\* is declared by a closed element but neither by the tag itself nor by an
\* element still open, the tag fails with MissingNamespace.
C31_ScopeExit ==
    \A token \in StartTags :
        /\ token.name.prefix # None
        /\ Resolution(token) = None
        /\ ClosedDeclares(token.name.prefix)
        => process_token(TB, token).res = "MissingNamespace"

\* The packets the stream yielded during the step.
NewlyRead == SubSeq(cb_wire'.read, Len(cb_wire.read) + 1, Len(cb_wire'.read))

\* What the future owes for the response iq: the stream, with the jid of the
\* response when it has a parsable one, for type result, an error otherwise.
Owed(stream, iq) ==
    IF iq.type = Some("result")
    THEN CbReady(IF iq.jid \in {None, Some("")} THEN stream
                 ELSE [stream EXCEPT !.jid = iq.jid[1]])
    ELSE CbErr("resource bind response")

\* A poll of a waiting future reads no packet after a response; when the
\* last packet it read is a response it returns what is owed for it; when
\* it read no response it does not resolve, and where it goes on waiting
\* for the response it has skipped every packet that had arrived.
C32_Step ==
    Poll /\ cb_state \in {"WaitSend", "WaitRecv"} =>
        LET n == Len(NewlyRead)
        IN  /\ \A i \in 1..(n - 1) : ~IsBindResponse(Some(NewlyRead[i]))
            /\ n > 0 /\ IsBindResponse(Some(NewlyRead[n])) =>
                   cb_ret' = Owed(cb_stream[1], NewlyRead[n])
            /\ ~(n > 0 /\ IsBindResponse(Some(NewlyRead[n]))) =>
                   /\ cb_ret'.k # "Ready"
                   /\ cb_ret' # CbErr("resource bind response")
                   /\ cb_state' = "WaitRecv" =>
                          cb_wire'.inbox = <<>> /\ cb_stream' = cb_stream

\* C32 (ClientBind completion): while the response is awaited every packet
\* that is not an iq with id "resource-bind" is skipped; the first such iq
\* ends the wait: with type "result" poll returns the stream, its jid that
\* of the response when the response has a parsable bind/jid and unchanged
\* otherwise; with another type or none poll returns an error.
C32_Completion == [][C32_Step]_vars

\* C32's case: an unrelated packet was skipped and the result that followed
\* it gave the stream its new jid.
C32_Witness ==
    /\ cb_ret.k = "Ready"
    /\ cb_ret.stream.jid = "a@b/s"
    /\ Len(cb_wire.read) = 2
    /\ cb_wire.read[1] = NotStanza

\* C33 (poll returns): whatever the sink and the stream do, the end of the
\* stream included, every call of poll returns Ready, NotReady or Err: none
\* goes on polling the stream without end.
C33_PollReturns == cb_ret.k # "never"

\* After NotReady the future is WaitSend or WaitRecv and holds the stream;
\* it is Invalid only once a poll has returned Ready or Err.
C34_States ==
    /\ cb_ret.k = "NotReady" =>
           cb_state \in {"WaitSend", "WaitRecv"} /\ cb_stream # None
    /\ cb_state = "Invalid" => cb_ret.k \in {"Ready", "Err", "panic"}

\* A poll after NotReady does not reach the Invalid arm; the future becomes
\* Invalid only by a poll that returns Ready or Err; it moves from WaitSend
\* to WaitRecv and from either to done, never back, and keeps its stream
\* while it waits.
C34_Step ==
    /\ Poll /\ cb_ret.k = "NotReady" => cb_ret'.k # "panic"
    /\ cb_state # "Invalid" /\ cb_state' = "Invalid" =>
           cb_ret'.k \in {"Ready", "Err"}
    /\ cb_state' # cb_state =>
           <<cb_state, cb_state'>> \in
               {<<"WaitSend", "WaitRecv">>, <<"WaitSend", "Invalid">>,
                <<"WaitRecv", "Invalid">>, <<"Unsupported", "Invalid">>}
    /\ cb_state' \in {"WaitSend", "WaitRecv"} => cb_stream' = cb_stream

\* C34 (ClientBind state discipline): whenever poll returns NotReady the
\* future is back in WaitSend or WaitRecv holding the stream, so the next
\* poll never reaches the Invalid arm; the future is left Invalid only by a
\* poll that returned Ready or Err; its states go WaitSend, WaitRecv, done,
\* never backwards.
C34_Discipline == []C34_States /\ [][C34_Step]_vars

\* C34's case: a poll skipped a packet, found the stream not ready and left
\* the future in WaitRecv, and another packet has arrived since.
C34_Witness ==
    /\ cb_ret.k = "NotReady"
    /\ cb_state = "WaitRecv"
    /\ cb_wire.read # <<>>
    /\ cb_wire.inbox # <<>>

=============================================================================
